---- MODULE Spec2Model ----
(***************************************************************************)
(* The rich text editor of ligature (src/src/richTextEditor.js) together   *)
(* with its undo manager (src/src/undoManager.js).                         *)
(*                                                                         *)
(* The document is the sequence of the children of the editor element.     *)
(* A child is a record                                                     *)
(*   tag    "p" (paragraph), "figure" (a bare <figure><img></figure>) or   *)
(*          "holder" (div.media-holder[contenteditable=false] around a     *)
(*          figure, followed by the media-killer control)                  *)
(*   html   the inner HTML of a paragraph: "<br>", "", " " or a text       *)
(*   fake   the paragraph carries the class "fake"                         *)
(*   key    the value of the img's data-img-key attribute, 0 when absent   *)
(*   src    the value of the img's src attribute                           *)
(*   origin history field: the key under which insertAsyncImage created    *)
(*          the image (it is no attribute and no code reads it)            *)
(* Serialized HTML is the same sequence; what getData, filterHTML and      *)
(* setData do to the markup is modelled on it.                             *)
(***************************************************************************)
EXTENDS Integers, Sequences, FiniteSets, TLC

(* ---- bounds ---- *)
MaxKeys == 1
MaxEdits == 3
MaxPending == 1
TickMs == 250

(* ---- program constants ---- *)
TIME_BETWEEN_CHANGES == 500
REFRESH_DELAY == 20
ANIMATE_DURATION == 200

NoTimer == 0 - 1

Texts == {"a", "b"}

Max(a, b) == IF a > b THEN a ELSE b
Min(a, b) == IF a < b THEN a ELSE b

Null == <<>>
Some(x) == <<x>>

(* ---- markup ---- *)
P(h) == [tag |-> "p", html |-> h, fake |-> FALSE, key |-> 0, src |-> "", origin |-> 0]
Media(t, k, s, o) == [tag |-> t, html |-> "", fake |-> FALSE, key |-> k, src |-> s, origin |-> o]

EMPTY_DATA == <<P("<br>")>>

TEXT_BLOCKS == {"p"}
BLOCK_ELEMENTS == {"p", "figure", "holder"}

\* the comparison of two serialized documents is a comparison of strings:
\* the history field is not part of the markup
Markup(d) == [i \in DOMAIN d |-> [d[i] EXCEPT !.origin = 0]]

\* $(element).text()
text(b) ==
    IF b.tag = "p" THEN (IF b.html = "<br>" THEN "" ELSE b.html)
    ELSE IF b.tag = "holder" THEN "x"
    ELSE ""

\* String.prototype.trim on the texts of the model
trimText(t) == IF t = " " THEN "" ELSE t

isMedia(b) == b.tag = "figure"
hasMedia(b) == b.tag \in {"figure", "holder"}
isBlock(b) == b.tag \in {"p", "figure"}
isContentEditableTurnedOff(b) == b.tag = "holder"

isEmptyElement(b, trim) ==
    LET t == IF trim THEN trimText(text(b)) ELSE text(b)
    IN t = "" /\ ~isMedia(b) /\ ~hasMedia(b)

\* number of characters in the editable text nodes of a child
textLength(b) == IF b.tag = "p" THEN Len(text(b)) ELSE 0

RECURSIVE totalText(_)
totalText(d) == IF d = <<>> THEN 0 ELSE textLength(d[1]) + totalText(Tail(d))

(* ---- getData ---- *)
removeMediaHolders(d) ==
    [i \in DOMAIN d |-> IF d[i].tag = "holder" THEN [d[i] EXCEPT !.tag = "figure"] ELSE d[i]]

removeFakeBlocks(d) == SelectSeq(d, LAMBDA b : ~(b.fake /\ isEmptyElement(b, FALSE)))

RECURSIVE trimEmptyEnds(_)
trimEmptyEnds(d) ==
    IF d = <<>> THEN d
    ELSE LET first == isEmptyElement(d[1], TRUE)
             last == isEmptyElement(d[Len(d)], TRUE)
         IN IF ~first /\ ~last THEN d
            ELSE trimEmptyEnds(SubSeq(d, IF first THEN 2 ELSE 1,
                                         IF last THEN Len(d) - 1 ELSE Len(d)))

getData(d, trim, keepImgAttrs) ==
    LET d1 == removeFakeBlocks(removeMediaHolders(d))
        d2 == IF keepImgAttrs THEN d1 ELSE [i \in DOMAIN d1 |-> [d1[i] EXCEPT !.key = 0]]
    IN IF trim THEN trimEmptyEnds(d2) ELSE d2

(* ---- filterHTML with the default filterRules ---- *)
\* p has no allowed attribute (the class goes); of the img's attributes the rules
\* keep src, alt, data-orig-width and data-orig-height: data-img-key goes
clean_element(b) ==
    IF b.tag = "p" THEN [b EXCEPT !.fake = FALSE]
    ELSE [b EXCEPT !.key = 0]

filterHTML(data) ==
    LET clean == [i \in DOMAIN data |-> clean_element(data[i])]
    IN SelectSeq(clean, LAMBDA b : ~(b.tag = "p" /\ b.html \in {"", " "}))

(* ---- block rules on the children of the editor element ---- *)
\* every child of the model is a block, a media holder or media: nothing to wrap
blockifyInlineNodes(d) == d

flattenBlocksDown(d) ==
    SelectSeq(blockifyInlineNodes(d),
              LAMBDA b : isContentEditableTurnedOff(b) \/ ~isEmptyElement(b, FALSE))

enforceMediaHolders(d) ==
    [i \in DOMAIN d |-> IF d[i].tag = "figure" THEN [d[i] EXCEPT !.tag = "holder"] ELSE d[i]]

enforceEndingTextBlockNever(d) == d

enforceEndingTextBlock(d) ==
    IF \E i \in DOMAIN d : d[i].tag \in TEXT_BLOCKS THEN d ELSE d \o EMPTY_DATA

(* ---- the selection ---- *)
\* The window's selection, as far as the editor reads it: no range ("none"), a
\* cursor on the editor element itself ("root"), or a cursor in child blk, at
\* offset off of its text node (inText) or on the element (~inText).
NoSel == [kind |-> "none", blk |-> 0, off |-> 0, inText |-> FALSE]
AtRoot == [kind |-> "root", blk |-> 0, off |-> 0, inText |-> FALSE]
Cursor(i, o, t) == [kind |-> "block", blk |-> i, off |-> o, inText |-> t]

textBefore(d, i) == totalText(SubSeq(d, 1, i - 1))

saveSelection(d, sl) ==
    IF sl.kind = "none" THEN Null
    ELSE LET start == IF sl.kind = "block" /\ sl.inText
                      THEN textBefore(d, sl.blk) + sl.off
                      ELSE totalText(d)
         IN Some([start |-> start, end |-> start])

\* the children with a text node that the walk of restoreSelection can stop at
restoreTargets(d, saved) ==
    {i \in DOMAIN d : textLength(d[i]) > 0 /\ saved.end <= textBefore(d, i) + textLength(d[i])}

\* The outcomes of restoreSelection. When the walk finds no text node the end
\* point is set on the stored end container, a node of the replaced tree: the
\* range call throws or the range is not added, by browser.
restoreSelection(d, savedSel) ==
    LET saved == savedSel[1]
        found == restoreTargets(d, saved)
        i == CHOOSE j \in found : \A k \in found : j <= k
    IN IF found # {} THEN {Cursor(i, saved.start - textBefore(d, i), TRUE)}
       ELSE {NoSel, AtRoot}

(* ---- editor state as a record, so that handlers compose ---- *)
\* lastSelection keeps what the editor reads of the saved selection: the child
\* its anchor node lies in (0: none, or the editor element; -1: a child of a
\* replaced tree).
Detached == 0 - 1

getRootBlock(s) ==
    IF s.sel.kind = "block" THEN s.sel.blk
    ELSE IF s.sel.kind = "root" THEN 0
    ELSE s.lastSelection

getContextBlock(s) ==
    IF getRootBlock(s) # 0 THEN getRootBlock(s) ELSE Len(s.doc)

setRawData(s, data) ==
    [s EXCEPT !.doc = data,
              !.sel = IF @.kind = "none" THEN @ ELSE AtRoot,
              !.lastSelection = IF @ > 0 THEN Detached ELSE @]

runInterfaceUpdate(s, delay) ==
    [s EXCEPT !.uiTimers = Append(@, delay)]

setCursorToStart(s) ==
    runInterfaceUpdate(
        IF s.doc # <<>> THEN [s EXCEPT !.sel = Cursor(1, 0, FALSE)] ELSE s,
        REFRESH_DELAY)

enforceBlockContext(s) ==
    IF getContextBlock(s) = 0 THEN setCursorToStart(setRawData(s, EMPTY_DATA)) ELSE s

(* ---- undo manager ---- *)
createState(s) ==
    [data |-> getData(s.doc, TRUE, TRUE), selection |-> saveSelection(s.doc, s.sel)]

\* saveState without the comparison of the contents
saveStateAlways(s) ==
    LET newState == createState(s)
    IN IF s.currState = Null
       THEN [s EXCEPT !.currState = Some(newState), !.capture = "first"]
       ELSE [s EXCEPT !.undoStates = Append(@, s.currState[1]),
                      !.currState = Some(newState),
                      !.capture = "pushed"]

saveState(s) ==
    LET newState == createState(s)
    IN IF s.currState = Null
       THEN [s EXCEPT !.currState = Some(newState), !.capture = "first"]
       ELSE IF Markup(newState.data) # Markup(s.currState[1].data)
            THEN [s EXCEPT !.undoStates = Append(@, s.currState[1]),
                           !.currState = Some(newState),
                           !.capture = "pushed"]
            ELSE [s EXCEPT !.capture = "same"]

\* a debounce that lets a wait under way run out
saverDebouncedNoRestart(s) ==
    [s EXCEPT !.saverTimer = IF @ = NoTimer THEN TIME_BETWEEN_CHANGES ELSE @,
              !.scheduled = @ + 1]

\* _.debounce(..., TIME_BETWEEN_CHANGES): every call restarts the wait
saverDebounced(s) ==
    [s EXCEPT !.saverTimer = TIME_BETWEEN_CHANGES, !.scheduled = @ + 1]

\* the editor's own onChange (richTextEditor.js:332): the placeholder and the
\* host's callback when the raw data differs from previousRawData, which nothing
\* else reads; no state of the model
defaultOnChange(s) == s

\* the wrapper without the synchronous first capture
managerOnChangeDebounceOnly(s, type) ==
    IF ~s.isRestoring
    THEN IF type = "updateAsyncImage" THEN [s EXCEPT !.notified = Max(@, 1)]
         ELSE defaultOnChange([saverDebounced(s) EXCEPT !.notified = 2])
    ELSE defaultOnChange([s EXCEPT !.isRestoring = FALSE, !.suppressed = @ + 1])

\* the wrapper without the test of the notification's type
managerOnChangeAnyType(s, type) ==
    IF ~s.isRestoring
    THEN defaultOnChange(
            [(IF s.currState = Null THEN saveState(s) ELSE saverDebounced(s))
                EXCEPT !.notified = 2])
    ELSE defaultOnChange([s EXCEPT !.isRestoring = FALSE, !.suppressed = @ + 1])

\* editor.onChange as replaced by the undo manager (undoManager.js:65)
managerOnChange(s, type) ==
    IF ~s.isRestoring
    THEN IF type = "updateAsyncImage" THEN [s EXCEPT !.notified = Max(@, 1)]
         ELSE defaultOnChange(
                [(IF s.currState = Null THEN saveState(s) ELSE saverDebounced(s))
                    EXCEPT !.notified = 2])
    ELSE defaultOnChange([s EXCEPT !.isRestoring = FALSE, !.suppressed = @ + 1])

onChange(s, type) ==
    IF s.hooked THEN managerOnChange(s, type) ELSE defaultOnChange(s)

(* ---- setData ---- *)
setData(s, data, runFilter, runBlockRules) ==
    LET d1 == IF runFilter THEN filterHTML(data) ELSE data
        s1 == setRawData(s, d1)
        s2 == [s1 EXCEPT !.doc = IF runBlockRules THEN flattenBlocksDown(@)
                                 ELSE blockifyInlineNodes(@)]
        s3 == enforceBlockContext(s2)
        s4 == [s3 EXCEPT !.doc = enforceEndingTextBlock(enforceMediaHolders(@))]
    IN onChange(s4, "")

(* ---- children inserted and removed in place ---- *)
removeChild(s, i) ==
    [s EXCEPT !.doc = SubSeq(@, 1, i - 1) \o SubSeq(@, i + 1, Len(@)),
              !.sel = IF @.kind # "block" THEN @
                      ELSE IF @.blk = i THEN AtRoot
                      ELSE IF @.blk > i THEN [@ EXCEPT !.blk = @ - 1] ELSE @,
              !.lastSelection = IF @ = i THEN Detached ELSE IF @ > i THEN @ - 1 ELSE @]

\* b becomes child i
insertChild(s, i, b) ==
    [s EXCEPT !.doc = SubSeq(@, 1, i - 1) \o <<b>> \o SubSeq(@, i, Len(@)),
              !.sel = IF @.kind = "block" /\ @.blk >= i THEN [@ EXCEPT !.blk = @ + 1] ELSE @,
              !.lastSelection = IF @ >= i THEN @ + 1 ELSE @]

(* ---- media boundaries ---- *)
isMediaHolder(d, i) == i \in DOMAIN d /\ d[i].tag = "holder"

createFakeBlock(b) == [b EXCEPT !.fake = TRUE]

\* the loop over $(editor.element).children('p'): j is the place of the current
\* paragraph in the live document, n its index in the list
RECURSIVE updateFakeNodes(_, _, _)
updateFakeNodes(s, j, n) ==
    IF j > Len(s.doc) THEN s
    ELSE IF s.doc[j].tag # "p" THEN updateFakeNodes(s, j + 1, n)
    ELSE IF getRootBlock(s) # j /\ isEmptyElement(s.doc[j], FALSE)
         THEN IF \/ (n = 0 /\ isMediaHolder(s.doc, j + 1))
                 \/ (j = Len(s.doc) /\ isMediaHolder(s.doc, j - 1))
                 \/ (isMediaHolder(s.doc, j - 1) /\ isMediaHolder(s.doc, j + 1))
              THEN updateFakeNodes([s EXCEPT !.doc[j] = createFakeBlock(@)], j + 1, n + 1)
              ELSE IF s.doc[j].fake
                   THEN updateFakeNodes(removeChild(s, j), j, n + 1)
                   ELSE updateFakeNodes(s, j + 1, n + 1)
         ELSE updateFakeNodes(s, j + 1, n + 1)

\* the loop over the media holders: a block after, between and before
RECURSIVE updateHolderNeighbours(_, _)
updateHolderNeighbours(s, j) ==
    IF j > Len(s.doc) THEN s
    ELSE IF s.doc[j].tag # "holder" THEN updateHolderNeighbours(s, j + 1)
    ELSE LET s1 == IF j = Len(s.doc) \/ isMediaHolder(s.doc, j + 1)
                   THEN insertChild(s, j + 1, createFakeBlock(EMPTY_DATA[1]))
                   ELSE s
             s2 == IF j = 1 THEN insertChild(s1, 1, createFakeBlock(EMPTY_DATA[1])) ELSE s1
         IN updateHolderNeighbours(s2, IF j = 1 THEN j + 2 ELSE j + 1)

\* updateMediaBoundaries without the loop over the media holders
updateMediaBoundariesFakeNodesOnly(s) ==
    LET rootBlock == getRootBlock(s)
        s1 == IF rootBlock > 0 THEN [s EXCEPT !.doc[rootBlock].fake = FALSE] ELSE s
    IN updateFakeNodes(s1, 1, 0)

updateMediaBoundaries(s) ==
    LET rootBlock == getRootBlock(s)
        s1 == IF rootBlock > 0 THEN [s EXCEPT !.doc[rootBlock].fake = FALSE] ELSE s
    IN updateHolderNeighbours(updateFakeNodes(s1, 1, 0), 1)

\* the callback of the timer set by runInterfaceUpdate
interfaceUpdate(s) ==
    IF s.sel.kind = "none" THEN updateMediaBoundaries(s)
    ELSE LET s1 == updateMediaBoundaries(s)
             s2 == [s1 EXCEPT !.doc = enforceEndingTextBlock(@)]
         IN [s2 EXCEPT !.lastSelection = IF s2.sel.kind = "block" THEN s2.sel.blk ELSE 0]

(* ---- async images ---- *)
\* place of the first img with this key, 0 when there is none
getAsyncImage(d, key) ==
    LET found == {i \in DOMAIN d : d[i].tag # "p" /\ d[i].key = key}
    IN IF found = {} \/ key = 0 THEN 0 ELSE CHOOSE i \in found : \A k \in found : i <= k

\* insertMedia with parentNode and insertDirection given and skipSelectionUpdate set
insertMedia(s, media, parentNode, insertDirection) ==
    LET holder == [media EXCEPT !.tag = "holder"]
        s1 == IF insertDirection < 0 THEN insertChild(s, parentNode, holder)
              ELSE IF insertDirection > 0 THEN insertChild(s, parentNode + 1, holder)
              ELSE insertChild(removeChild(s, parentNode), parentNode, holder)
        at == IF insertDirection > 0 THEN parentNode + 1 ELSE parentNode
        s2 == IF \E k \in DOMAIN s1.doc : k > at /\ s1.doc[k].tag \in TEXT_BLOCKS
              THEN s1
              ELSE insertChild(s1, at + 1, EMPTY_DATA[1])
    IN runInterfaceUpdate(s2, ANIMATE_DURATION + REFRESH_DELAY)

insertAsyncImage(s, source, insertNode, insertDirection) ==
    LET key == Len(s.mediaTracker) + 1
        s1 == [s EXCEPT !.mediaTracker =
                    Append(@, [originalSource |-> source, updatedSource |-> ""])]
        s2 == insertMedia(s1, Media("figure", key, source, key), insertNode, insertDirection)
    IN onChange(onChange(s2, ""), "")

updateAsyncImage(s, key, src) ==
    LET img == getAsyncImage(s.doc, key)
        s1 == IF src # ""
              THEN [s EXCEPT !.doc = IF img = 0 THEN @ ELSE [@ EXCEPT ![img].src = src],
                             !.mediaTracker[key].updatedSource = src]
              ELSE s
    IN onChange(s1, "updateAsyncImage")

(* ---- undo and redo ---- *)
\* the callback the editor hands to the undo manager (richTextEditor.js:379)
RECURSIVE afterRestore(_, _)
afterRestore(s, key) ==
    IF key > Len(s.mediaTracker) THEN s
    ELSE LET trackerSource == s.mediaTracker[key].updatedSource
             img == getAsyncImage(s.doc, key)
         IN afterRestore(
                IF trackerSource # "" /\ img # 0
                THEN [s EXCEPT !.doc[img].src = trackerSource] ELSE s,
                key + 1)

\* the states restoreState can leave (one for each outcome of restoreSelection)
restoreState(s, state) ==
    LET s1 == setData([s EXCEPT !.isRestoring = TRUE, !.restored = TRUE],
                      state.data, TRUE, FALSE)
        sels == IF state.selection # Null THEN restoreSelection(s1.doc, state.selection)
                ELSE {NoSel}
    IN {afterRestore([s1 EXCEPT !.sel = sl], 1) : sl \in sels}

resetCurrState(s) == [s EXCEPT !.currState = Some(createState(s))]

undo(s) ==
    LET s1 == saveState(s)
        n == Len(s1.undoStates)
        prevState == s1.undoStates[n]
        s2 == [s1 EXCEPT !.undoStates = SubSeq(@, 1, n - 1)]
    IN IF n = 0 THEN {s1}
       ELSE {resetCurrState([r EXCEPT !.redoStates = Append(@, r.currState[1])]) :
                r \in restoreState(s2, prevState)}

redo(s) ==
    LET n == Len(s.redoStates)
        nextState == s.redoStates[n]
        s2 == [s EXCEPT !.redoStates = SubSeq(@, 1, n - 1)]
    IN IF n = 0 THEN {s}
       ELSE {resetCurrState([r EXCEPT !.undoStates = Append(@, r.currState[1])]) :
                r \in restoreState(s2, nextState)}

\* RichTextEditor.teardown: the undo manager's teardown (keyComboEvents.off()
\* removes the key combinations of the formatting controls only)
teardown(s) ==
    [s EXCEPT !.isTorndown = TRUE, !.hooked = FALSE,
              !.undoStates = <<>>, !.redoStates = <<>>, !.currState = Null]

\* the debounced function without the test of isTorndown
saverCallbackNoCheck(s) == saveState(s)

\* the function _.debounce wraps
saverCallback(s) == IF ~s.isTorndown THEN saveState(s) ELSE s

(* ---- state ---- *)
VARIABLES
    doc,              \* children of the editor element
    sel,              \* the window's selection
    lastSelection,    \* editor.lastSelection
    mediaTracker,     \* editor.mediaTracker: key k is entry k
    uiTimers,         \* ms left of the pending runInterfaceUpdate timers
    edits,            \* events that raise a change notification, so far
    currState, undoStates, redoStates, isRestoring, isTorndown,   \* the undo manager
    hooked,           \* editor.onChange is the undo manager's wrapper
    saverTimer,       \* ms left of the debounce wait, NoTimer when none is pending
    \* history of the last step
    event,            \* the operation that ran
    capture,          \* what saveState did in it: "none", "first", "same", "pushed"
    scheduled,        \* calls of saverDebounced in it
    suppressed,       \* notifications it let pass as the restore's own
    restored,         \* restoreState ran in it
    notified,         \* 0: no notification reached the wrapper as a change,
                      \* 1: only of type updateAsyncImage, 2: one of another type
    \* history across steps
    sinceEdit,        \* ms since the last change notification that the wrapper
                      \* took as a change, counted up to Late
    runLength,        \* notifications of the run so far (a run: each less than
                      \* TIME_BETWEEN_CHANGES after the one before), up to 2
    runCommits,       \* pushes by the debounced capture since the run began
    script,           \* progress on: three edits, each left to settle, then three
                      \* undos (0..6, -1 when the run is not of this shape)
    undone,           \* 1 after an undo on a stack that was not empty, 2 after the redo that
                      \* followed it at once, else 0
    preUndo,          \* serialized content before that undo
    \* the parts checked on their own, each under its own specification
    pc,               \* how far the calls under check have come ("off": not under way)
    container,        \* selection: the text nodes of the container element, in document order
    range,            \* selection: the range of the window's selection
    savedSel,         \* selection: what saveSelection returned
    selected,         \* selection: range.toString() when the selection was made
    element,          \* selection: the text nodes first..last of the element asked about
    input,            \* filter: the child nodes of the node handed to the filter
    output,           \* filter: the child nodes each call so far has left, oldest first
    sanitizeConfig,   \* filter: the editor's config.filterRules, which every Sanitize shares
    idCounter,        \* images: the counter behind _.uniqueId()
    images,           \* images: per image inserted, the img element of its key
    failed,           \* images: the calls of config.onAsyncImageFailed so far
    childNodes,       \* commands: the children of the editor element
    context,          \* commands: the children from..to that hold the selection (0: none)
    spans,            \* commands: the nodes in context hold spans or style attributes
    log               \* commands: what the last call did, in order

editor == <<doc, sel, lastSelection, mediaTracker, uiTimers, edits,
            currState, undoStates, redoStates, isRestoring, isTorndown, hooked,
            saverTimer, event, capture, scheduled, suppressed, restored, notified,
            sinceEdit, runLength, runCommits, script, undone, preUndo>>

selection == <<container, range, savedSel, selected, element>>

filter == <<input, output, sanitizeConfig>>

async == <<idCounter, images, failed>>

commands == <<childNodes, context, spans, log>>

vars == <<editor, pc, selection, filter, async, commands>>

manager == <<currState, undoStates, redoStates>>

\* the state as the handlers take it, the history of the step cleared
Cur ==
    [doc |-> doc, sel |-> sel, lastSelection |-> lastSelection,
     mediaTracker |-> mediaTracker,
     uiTimers |-> uiTimers, currState |-> currState, undoStates |-> undoStates,
     redoStates |-> redoStates, isRestoring |-> isRestoring,
     isTorndown |-> isTorndown, hooked |-> hooked, saverTimer |-> saverTimer,
     capture |-> "none", scheduled |-> 0, suppressed |-> 0, restored |-> FALSE,
     notified |-> 0]

serialized(d) == Markup(getData(d, TRUE, TRUE))

settled == saverTimer = NoTimer /\ uiTimers = <<>>

\* the clock stops here: longer ago than the debounce interval
Late == TIME_BETWEEN_CHANGES + TickMs

EditEvents == {"input", "setData", "insertAsyncImage"}

\* the step leaves r, having run ev and taken dt ms
Becomes(r, ev, dt) ==
    /\ doc' = r.doc
    /\ sel' = r.sel
    /\ lastSelection' = r.lastSelection
    /\ mediaTracker' = r.mediaTracker
    /\ uiTimers' = r.uiTimers
    /\ edits' = IF ev \in EditEvents \cup {"updateAsyncImage", "focus"} THEN edits + 1 ELSE edits
    /\ currState' = r.currState
    /\ undoStates' = r.undoStates
    /\ redoStates' = r.redoStates
    /\ isRestoring' = r.isRestoring
    /\ isTorndown' = r.isTorndown
    /\ hooked' = r.hooked
    /\ saverTimer' = r.saverTimer
    /\ event' = ev
    /\ capture' = r.capture
    /\ scheduled' = r.scheduled
    /\ suppressed' = r.suppressed
    /\ restored' = r.restored
    /\ notified' = r.notified
    /\ sinceEdit' = IF r.notified = 2 THEN 0 ELSE Min(sinceEdit + dt, Late)
    /\ runLength' = IF r.notified # 2 THEN runLength
                    ELSE IF sinceEdit >= TIME_BETWEEN_CHANGES THEN 1
                    ELSE Min(runLength + 1, 2)
    /\ runCommits' = IF r.notified = 2
                     THEN (IF sinceEdit >= TIME_BETWEEN_CHANGES THEN 0 ELSE runCommits)
                     ELSE IF ev = "saverDebounced" /\ r.capture = "pushed"
                          THEN Min(runCommits + 1, 2)
                          ELSE runCommits
    /\ script' = IF ev \in {"saverDebounced", "interfaceUpdate", "advance"} THEN script
                 ELSE IF /\ ev \in EditEvents /\ script \in 0..2 /\ settled
                         /\ (script = 0 \/ sinceEdit > TIME_BETWEEN_CHANGES)
                         /\ r.notified = 2
                         /\ serialized(r.doc) # serialized(doc)
                      THEN script + 1
                 ELSE IF /\ ev = "undo" /\ script \in 3..5 /\ settled
                         /\ sinceEdit > TIME_BETWEEN_CHANGES
                      THEN script + 1
                 ELSE 0 - 1
    /\ undone' = IF ev = "undo" /\ undoStates # <<>> THEN 1
                 ELSE IF ev = "redo" /\ r.restored /\ undone = 1 THEN 2
                 ELSE 0
    /\ preUndo' = IF ev = "undo" /\ undoStates # <<>> THEN getData(doc, TRUE, TRUE)
                  ELSE IF ev = "redo" /\ r.restored /\ undone = 1 THEN preUndo
                  ELSE <<>>
    /\ UNCHANGED <<pc, selection, filter, async, commands>>

\* new RichTextEditor(...): setupUI puts EMPTY_DATA in the element, the undo
\* manager replaces onChange; nothing has been notified and no time is counted
EditorInit ==
    /\ doc = EMPTY_DATA
    /\ sel = NoSel
    /\ lastSelection = 0
    /\ mediaTracker = <<>>
    /\ uiTimers = <<>>
    /\ edits = 0
    /\ currState = Null
    /\ undoStates = <<>>
    /\ redoStates = <<>>
    /\ isRestoring = FALSE
    /\ isTorndown = FALSE
    /\ hooked = TRUE
    /\ saverTimer = NoTimer
    /\ event = "init"
    /\ capture = "none"
    /\ scheduled = 0
    /\ suppressed = 0
    /\ restored = FALSE
    /\ notified = 0
    /\ sinceEdit = Late
    /\ runLength = 0
    /\ runCommits = 0
    /\ script = 0
    /\ undone = 0
    /\ preUndo = <<>>

\* a range: its boundary points, a text node of the container by its place
\* (0: the container element itself, Detached: a node of another tree)
Range(sc, so, ec, eo) == [sc |-> sc, so |-> so, ec |-> ec, eo |-> eo]

\* no call of the selection context is under check
SelectionOff ==
    /\ container = <<>>
    /\ range = Range(0, 0, 0, 0)
    /\ savedSel = [start |-> 0, end |-> 0, endContainer |-> 0]
    /\ selected = <<>>
    /\ element = [first |-> 0, last |-> 0]

(* ---- the editor's filter rules (config.filterRules) ---- *)
\* a string that the code takes apart is the sequence of its characters
RELATIVE == <<"_", "_", "R", "E", "L", "A", "T", "I", "V", "E", "_", "_">>
ALL == "__ALL__"

FilterRules ==
    [elements |-> {"a", "b", "i", "ul", "ol", "li", "p", "h2", "blockquote", "img",
                   "iframe", "figure", "br", "hr", "pre", "sub", "sup", "small"},
     attributes |-> [a |-> <<"href", "title">>,
                     img |-> <<"src", "alt", "data-orig-width", "data-orig-height">>,
                     hr |-> <<"data-label">>,
                     iframe |-> <<"src", "width", "height", "frameborder">>,
                     figure |-> <<"data-orig-width", "data-orig-height">>],
     classnames |-> [hr |-> <<"read-more">>],
     remove_contents |-> {"style", "noscript", "script", "meta"},
     protocols |-> [a |-> [href |-> <<<<"h", "t", "t", "p">>,
                                     <<"h", "t", "t", "p", "s">>,
                                     <<"m", "a", "i", "l", "t", "o">>>>]]]

\* no call of the filter is under check
FilterOff ==
    /\ input = <<>>
    /\ output = <<>>
    /\ sanitizeConfig = FilterRules

AsyncOff ==
    /\ idCounter = 0
    /\ images = <<>>
    /\ failed = 0

CommandOff ==
    /\ childNodes = <<>>
    /\ context = [from |-> 0, to |-> 0]
    /\ spans = FALSE
    /\ log = <<>>

Init == EditorInit /\ pc = "off" /\ SelectionOff /\ FilterOff /\ AsyncOff /\ CommandOff

(* ---- inputs ---- *)
Typed == Texts \cup {"<br>"}
DataInputs == {<<>>, <<P("a")>>, <<P("b")>>}
Sources == {"s1"}
NewSources == {"", "s2"}
Directions == {0 - 1, 0, 1}

\* room left for one more notifying event, one more pending refresh
room == edits < MaxEdits
idle == Len(uiTimers) < MaxPending

(* ---- actions ---- *)
\* the user types in paragraph i, which then reads t (the window has a selection:
\* the element has had the focus): the browser changes the document and moves
\* the cursor, the input handler runs (richTextEditor.js:620)
Input(i, t) ==
    /\ room /\ idle
    /\ sel.kind # "none"
    /\ doc[i].tag = "p"
    /\ LET typed == [Cur EXCEPT !.doc[i].html = t,
                                !.sel = IF t = "<br>" THEN Cursor(i, 0, FALSE)
                                        ELSE Cursor(i, Len(t), TRUE)]
       IN Becomes(onChange(runInterfaceUpdate(typed, REFRESH_DELAY), ""), "input", 0)

SetData(data, runFilter, runBlockRules) ==
    /\ room /\ idle
    /\ Becomes(setData(Cur, data, runFilter, runBlockRules), "setData", 0)

InsertAsyncImage(source, insertNode, insertDirection) ==
    /\ room /\ idle
    /\ Len(mediaTracker) < MaxKeys
    /\ Becomes(insertAsyncImage(Cur, source, insertNode, insertDirection),
               "insertAsyncImage", 0)

\* with a source the call throws on a key that is not tracked
UpdateAsyncImage(key, src) ==
    /\ room
    /\ src = "" \/ key <= Len(mediaTracker)
    /\ Becomes(updateAsyncImage(Cur, key, src), "updateAsyncImage", 0)

\* the element gets the focus (richTextEditor.js:670): the browser gives it the
\* caret if the window had no selection; the handler moves the cursor to the
\* first block when there is no root block, and the deferred onChange runs
focus(s) ==
    LET s1 == IF s.sel.kind = "none" THEN [s EXCEPT !.sel = AtRoot] ELSE s
    IN IF getRootBlock(s1) = 0 /\ s1.doc # <<>>
       THEN [s1 EXCEPT !.sel = Cursor(1, 0, FALSE)] ELSE s1

Focus == room /\ Becomes(onChange(focus(Cur), ""), "focus", 0)

Undo == idle /\ \E r \in undo(Cur) : Becomes(r, "undo", 0)

Redo == idle /\ \E r \in redo(Cur) : Becomes(r, "redo", 0)

Teardown == Becomes(teardown(Cur), "teardown", 0)

\* the debounce wait is over
SaverDebouncedFire ==
    /\ saverTimer = 0
    /\ Becomes(saverCallback([Cur EXCEPT !.saverTimer = NoTimer]), "saverDebounced", 0)

\* refresh timer k is due
InterfaceUpdateFire(k) ==
    /\ uiTimers[k] = 0
    /\ Becomes(interfaceUpdate([Cur EXCEPT !.uiTimers =
                    SubSeq(@, 1, k - 1) \o SubSeq(@, k + 1, Len(@))]),
               "interfaceUpdate", 0)

\* TickMs pass; a timer that is due fires before more time passes
Advance ==
    /\ saverTimer # 0
    /\ \A k \in DOMAIN uiTimers : uiTimers[k] > 0
    /\ Becomes([Cur EXCEPT !.saverTimer = IF @ = NoTimer THEN @ ELSE Max(@ - TickMs, 0),
                           !.uiTimers = [k \in DOMAIN @ |-> Max(@[k] - TickMs, 0)]],
               "advance", TickMs)

Next ==
    \/ \E i \in DOMAIN doc, t \in Typed : Input(i, t)
    \/ \E data \in DataInputs, runFilter \in BOOLEAN, runBlockRules \in BOOLEAN :
          SetData(data, runFilter, runBlockRules)
    \/ \E source \in Sources, i \in DOMAIN doc, dir \in Directions :
          InsertAsyncImage(source, i, dir)
    \/ \E key \in 1..MaxKeys, src \in NewSources : UpdateAsyncImage(key, src)
    \/ Focus
    \/ Undo
    \/ Redo
    \/ Teardown
    \/ SaverDebouncedFire
    \/ \E k \in DOMAIN uiTimers : InterfaceUpdateFire(k)
    \/ Advance

Spec == Init /\ [][Next]_vars

(* ---- properties ---- *)

\* C1: on a fresh editor with the empty document, three edits that each change
\* the serialized content, each notified and left alone for longer than the
\* debounce interval, and then three undo() calls, leave the empty document.
C1_ThreeUndosRestoreEmpty ==
    script = 6 => serialized(doc) = serialized(EMPTY_DATA)

\* C2: an undo() on a stack that is not empty and the redo() right after it
\* leave the serialized content what it was before the undo().
C2_UndoThenRedoKeepsContent ==
    undone = 2 => serialized(doc) = Markup(preUndo)

\* C3: a change notification or a debounced capture that finds the serialized
\* content equal to the checkpoint's leaves the checkpoint and both stacks as
\* they were.
C3_EqualContentIsNoOp ==
    [][(/\ notified' = 2 \/ event' = "saverDebounced"
        /\ currState # Null
        /\ serialized(doc') = Markup(currState[1].data))
       => UNCHANGED manager]_vars

C3_Witness ==
    /\ event = "saverDebounced"
    /\ capture = "same"
    /\ undoStates # <<>>

\* C4: an undo() or redo() that restores lets exactly one notification pass as
\* its own: that notification is not taken as a change and schedules no
\* debounced capture, and isRestoring is false when the call returns.
C4_RestoreSuppressesOneNotification ==
    restored => /\ suppressed = 1
                /\ notified = 0
                /\ scheduled = 0
                /\ ~isRestoring

\* C5: the debounced capture runs only when TIME_BETWEEN_CHANGES have passed
\* since the last notification of the run, and it pushes at most once for the
\* run.
C5_OneCommitAfterQuiet ==
    [][event' = "saverDebounced"
       => /\ sinceEdit >= TIME_BETWEEN_CHANGES
          /\ runCommits' <= 1]_vars

C5_Witness ==
    /\ event = "saverDebounced"
    /\ capture = "pushed"
    /\ runLength = 2

\* C6: with no checkpoint, a change notification makes the (document,
\* selection) pair of that moment the checkpoint in the same step, pushing
\* nothing; and a debounced capture that finds other content pushes the
\* checkpoint it replaces.
C6_FirstCheckpointSynchronous ==
    [][/\ (currState = Null /\ notified' = 2)
          => /\ currState' = Some([data |-> getData(doc', TRUE, TRUE),
                                   selection |-> saveSelection(doc', sel')])
             /\ undoStates' = undoStates
       /\ (event' = "saverDebounced" /\ capture' = "pushed")
          => /\ currState # Null
             /\ undoStates' = Append(undoStates, currState[1])]_vars

C6_Witness ==
    /\ event = "saverDebounced"
    /\ capture = "pushed"
    /\ Len(undoStates) = 1

\* C7: a notification of type updateAsyncImage changes neither the checkpoint
\* nor the stacks and schedules no debounced capture.
C7_UpdateAsyncImageNotRecorded ==
    [][event' = "updateAsyncImage"
       => /\ UNCHANGED manager
          /\ UNCHANGED saverTimer
          /\ scheduled' = 0]_vars

C7_Witness ==
    /\ event = "updateAsyncImage"
    /\ notified = 1
    /\ currState # Null
    /\ serialized(doc) # Markup(currState[1].data)

\* C8: after a restore by undo() or redo(), every image that insertAsyncImage
\* put in under a key whose tracker entry has an updatedSource shows that
\* source.
C8_RestoredImagesShowUpdatedSource ==
    restored =>
        \A i \in DOMAIN doc :
            (doc[i].origin # 0 /\ mediaTracker[doc[i].origin].updatedSource # "")
            => doc[i].src = mediaTracker[doc[i].origin].updatedSource

\* C9: the debounce wait that ends after teardown changes neither the
\* checkpoint nor a stack.
C9_FiringAfterTeardownIsNoOp ==
    [][(event' = "saverDebounced" /\ isTorndown) => UNCHANGED manager]_vars

C9_Witness ==
    /\ event = "saverDebounced"
    /\ isTorndown

\* C10: after teardown no input event, no timer callback and no undo() or
\* redo() changes the checkpoint or a stack, and none but the typing itself
\* changes the document.
C10_NothingChangesAfterTeardown ==
    [][(isTorndown /\ event' \in {"input", "focus", "saverDebounced",
                                  "interfaceUpdate", "undo", "redo"})
       => /\ UNCHANGED manager
          /\ event' # "input" => doc' = doc]_vars

\* isEmpty(): the raw data is '', EMPTY_DATA or EMPTY_PARAGRAPH (a lone <br>
\* is no document of the model)
isEmpty(d) ==
    \/ d = <<>>
    \/ /\ Len(d) = 1
       /\ d[1].tag = "p" /\ ~d[1].fake /\ d[1].html \in {"<br>", ""}

\* C18: setData(''), whatever the document and the selection before and
\* whatever the flags, leaves exactly the placeholder paragraph, and isEmpty()
\* is true.
C18_SetDataEmptyLeavesPlaceholder ==
    [][\A runFilter \in BOOLEAN, runBlockRules \in BOOLEAN :
          SetData(<<>>, runFilter, runBlockRules)
          => isEmpty(doc') /\ Markup(doc') = EMPTY_DATA]_vars

C18_Witness ==
    /\ event = "setData"
    /\ doc = EMPTY_DATA /\ isEmpty(doc)
    /\ currState # Null
    /\ \E i \in DOMAIN currState[1].data : currState[1].data[i].tag = "figure"
    /\ sel.kind # "none"

(* ---- selection save and restore (src/src/selectionContext.js) ---- *)
\* A text node is the sequence of its characters; the container is the
\* sequence of its text nodes in document order (what the two walks visit).
MaxText == 3
MaxNodes == 3
CharacterLimit == 2
Letters == <<"a", "b", "c", "d", "e", "f">>

RECURSIVE textContent(_)
textContent(nodes) ==
    IF nodes = <<>> THEN <<>> ELSE Head(nodes) \o textContent(Tail(nodes))

\* boundary point (n1, o1) is before (n2, o2) in the tree
before(n1, o1, n2, o2) == n1 < n2 \/ (n1 = n2 /\ o1 < o2)

\* range.setStart / range.setEnd: the other end follows when it is passed
setStart(r, n, o) ==
    IF before(r.ec, r.eo, n, o) THEN Range(n, o, n, o) ELSE [r EXCEPT !.sc = n, !.so = o]
setEnd(r, n, o) ==
    IF before(n, o, r.sc, r.so) THEN Range(n, o, n, o) ELSE [r EXCEPT !.ec = n, !.eo = o]

\* a boundary point in an element without text (an empty paragraph) that
\* follows text node g: its container is no text node of the walk
InElement(g) == 0 - (g + 2)

\* the characters of the text nodes before the boundary point (n, o)
charsBefore(nodes, n, o) ==
    IF n = 0 THEN 0
    ELSE IF n < Detached THEN Len(textContent(SubSeq(nodes, 1, 0 - (n + 2))))
    ELSE Len(textContent(SubSeq(nodes, 1, n - 1))) + o

\* range.toString(): the characters between the boundary points
toString(nodes, r) ==
    IF r.sc = Detached THEN <<>>
    ELSE SubSeq(textContent(nodes), charsBefore(nodes, r.sc, r.so) + 1,
                charsBefore(nodes, r.ec, r.eo))

\* the walk of saveSelection from node k on, start counted so far
RECURSIVE saveWalk(_, _, _, _)
saveWalk(nodes, r, k, start) ==
    IF k > Len(nodes) THEN start
    ELSE IF k = r.sc THEN start + r.so
    ELSE saveWalk(nodes, r, k + 1, start + Len(nodes[k]))

saveSelectionFromOffset(nodes, r) ==
    [start |-> r.so, end |-> r.so + Len(toString(nodes, r)), endContainer |-> r.ec]

saveSelectionRange(nodes, r) ==
    LET start == saveWalk(nodes, r, 1, 0)
    IN  [start |-> start, end |-> start + Len(toString(nodes, r)), endContainer |-> r.ec]

\* the walk of restoreSelection from node k on
RECURSIVE restoreWalk(_, _, _, _, _, _)
restoreWalk(nodes, saved, k, charIndex, r, foundStart) ==
    IF k > Len(nodes) THEN [range |-> r, foundEnd |-> FALSE, charIndex |-> charIndex]
    ELSE LET nextCharIndex == charIndex + Len(nodes[k])
             atStart == ~foundStart /\ saved.start >= charIndex /\ saved.start < nextCharIndex
             r1 == IF atStart THEN setStart(r, k, saved.start - charIndex) ELSE r
             atCursor == ~(foundStart \/ atStart) /\ nextCharIndex = saved.end
             r2 == IF atCursor THEN setStart(r1, k, saved.end - charIndex) ELSE r1
             found == foundStart \/ atStart \/ atCursor
         IN  IF found /\ saved.end >= charIndex /\ saved.end <= nextCharIndex
             THEN [range |-> setEnd(r2, k, saved.end - charIndex), foundEnd |-> TRUE,
                   charIndex |-> nextCharIndex]
             ELSE restoreWalk(nodes, saved, k + 1, nextCharIndex, r2, found)

\* restoreSelection: the ranges the selection can hold afterwards. Without an
\* end in the walk, setEnd goes to savedSel.endContainer: it throws on an offset
\* outside that node (the range stays), and a node of another tree takes the
\* range with it, which addRange does not take
restoreSelectionRange(nodes, saved) ==
    LET w == restoreWalk(nodes, saved, 1, 0, Range(0, 0, 0, 0), FALSE)
        pos == saved.end - w.charIndex
        n == saved.endContainer
    IN  IF w.foundEnd THEN {w.range}
        ELSE IF n = Detached
             THEN {w.range, Range(Detached, 0, Detached, 0)}
        ELSE IF n \in DOMAIN nodes /\ pos >= 0 /\ pos <= Len(nodes[n])
             THEN {setEnd(w.range, n, pos)}
        ELSE {w.range}

\* the ways to hold text t in at most MaxNodes text nodes
Segmentations(t) ==
    LET pieces == {SubSeq(t, i, j) : i \in 1..(Len(t) + 1), j \in 0..Len(t)}
    IN  {ns \in UNION {[1..k -> pieces] : k \in 0..MaxNodes} : textContent(ns) = t}

\* the ranges with both boundary points in text nodes
Ranges(nodes) ==
    {r \in UNION {{Range(sc, so, ec, eo) : so \in 0..Len(nodes[sc]), eo \in 0..Len(nodes[ec])} :
                     sc \in DOMAIN nodes, ec \in DOMAIN nodes} :
        ~before(r.ec, r.eo, r.sc, r.so)}

\* the user has selected part of a text ("selected"), or the text is about
\* to be edited ("editing"), the window's selection in it or not (Detached),
\* or it is edited under config.characterLimit ("limit"), no longer than that,
\* or the selection is asked about ("selection"): a range in the text nodes
\* or a cursor in an empty element, and an element of the container: the
\* empty element of the cursor, or one that holds the text nodes first..last
SelectionInit ==
    /\ EditorInit
    /\ FilterOff
    /\ AsyncOff
    /\ CommandOff
    /\ pc \in {"selected", "editing", "limit", "selection"}
    /\ \E n \in 0..MaxText :
           /\ pc = "limit" => n <= CharacterLimit
           /\ container \in Segmentations(SubSeq(Letters, 1, n))
    /\ range \in Ranges(container)
                 \cup (IF pc = "editing" THEN {Range(Detached, 0, Detached, 0)} ELSE {})
                 \cup (IF pc = "selection"
                       THEN {Range(InElement(g), 0, InElement(g), 0) : g \in 0..Len(container)}
                       ELSE {})
    /\ savedSel = [start |-> 0, end |-> 0, endContainer |-> 0]
    /\ selected = toString(container, range)
    /\ element \in IF pc # "selection" THEN {[first |-> 0, last |-> 0]}
                   ELSE IF range.sc < Detached
                        THEN {[first |-> 0 - range.sc - 1, last |-> 0 - range.sc - 2]}
                   ELSE {el \in [first : DOMAIN container, last : DOMAIN container] :
                            el.first <= el.last}

SaveSelection ==
    /\ pc \in {"selected", "selection"}
    /\ savedSel' = saveSelectionRange(container, range)
    /\ pc' = IF pc = "selected" THEN "saved" ELSE "selection saved"
    /\ UNCHANGED <<editor, filter, container, range, selected, element, async, commands>>

\* the markup is rewritten between the two calls: the same text in other text
\* nodes; the old nodes, the saved endContainer among them, leave the tree
Rewrap ==
    /\ pc = "saved"
    /\ container' \in Segmentations(textContent(container)) \ {container}
    /\ range' = Range(0, 0, 0, 0)
    /\ savedSel' = [savedSel EXCEPT !.endContainer = Detached]
    /\ pc' = "rewrapped"
    /\ UNCHANGED <<editor, filter, selected, element, async, commands>>

RestoreSelection ==
    /\ pc \in {"saved", "rewrapped"}
    /\ range' \in restoreSelectionRange(container, savedSel)
    /\ pc' = "restored"
    /\ UNCHANGED <<editor, filter, container, savedSel, selected, element, async, commands>>

\* insertDataAtCursor(data), data a text: the text nodes and the range it
\* leaves. SelectionContext.getSelection() is null unless the anchor node is
\* inside the context; range.insertNode splits the text node at the start
insertDataAtCursor(nodes, r, data) ==
    IF data = <<>> \/ r.sc = Detached
    THEN [nodes |-> nodes, range |-> r]
    ELSE [nodes |-> SubSeq(nodes, 1, r.sc - 1)
                    \o <<SubSeq(nodes[r.sc], 1, r.so), data,
                         SubSeq(nodes[r.ec], r.eo + 1, Len(nodes[r.ec]))>>
                    \o SubSeq(nodes, r.ec + 1, Len(nodes)),
          range |-> Range(r.sc + 1, Len(data), r.sc + 1, Len(data))]

\* doQuote(openChar, closeChar, primeChar): threw when it ends in a TypeError,
\* else the text nodes and the range it leaves
doQuote(nodes, r, openChar, closeChar, primeChar) ==
    IF r.sc = Detached
    THEN [threw |-> TRUE, nodes |-> nodes, range |-> r]
    ELSE IF <<r.sc, r.so>> # <<r.ec, r.eo>>
         THEN [threw |-> FALSE, nodes |-> nodes, range |-> r]
    ELSE LET beforeStr == SubSeq(nodes[r.sc], 1, r.so)
             prevChar == IF beforeStr = <<>> THEN "" ELSE beforeStr[Len(beforeStr)]
             charToInsert == IF prevChar \in {"", " ", "="} THEN openChar
                             ELSE IF prevChar \in {"0", "1", "2", "3", "4", "5", "6", "7", "8", "9"}
                                  THEN primeChar
                             ELSE closeChar
             put == insertDataAtCursor(nodes, r, <<charToInsert>>)
         IN  [threw |-> FALSE, nodes |-> put.nodes, range |-> put.range]

\* rangeFromElement(element): no range (false) without a collapsed selection,
\* else the offsets of the range from the start of the element to the
\* cursor; setEnd on a point before the start moves the start there too
rangeFromElement(nodes, r, el) ==
    IF r.sc = Detached \/ <<r.sc, r.so>> # <<r.ec, r.eo>> THEN {}
    ELSE IF r.sc > 0 /\ r.sc < el.first
         THEN {[startOffset |-> r.so, endOffset |-> r.so]}
    ELSE {[startOffset |-> 0, endOffset |-> r.so]}

isCursorAtStart(nodes, r, el) ==
    \E rg \in rangeFromElement(nodes, r, el) : rg.startOffset = 0 /\ rg.endOffset = 0

\* SelectionContext.isCursorAtStart(element) is asked
IsCursorAtStart ==
    /\ pc = "selection"
    /\ pc' = IF isCursorAtStart(container, range, element) THEN "at start" ELSE "not at start"
    /\ UNCHANGED <<editor, filter, selection, async, commands>>

\* editor.insertData(data, false, false)
InsertData(data) ==
    /\ pc = "editing"
    /\ container' = insertDataAtCursor(container, range, data).nodes
    /\ range' = insertDataAtCursor(container, range, data).range
    /\ pc' = "inserted"
    /\ UNCHANGED <<editor, filter, savedSel, selected, element, async, commands>>

\* the keypress handler of the smart quoter: charCode 34 or 39
DoQuote(charCode) ==
    /\ pc = "editing"
    /\ \E q \in {IF charCode = 34 THEN doQuote(container, range, "ldquo", "rdquo", "Prime")
                  ELSE doQuote(container, range, "lsquo", "rsquo", "prime")} :
           /\ container' = q.nodes
           /\ range' = q.range
           /\ pc' = IF q.threw THEN "thrown" ELSE "quoted"
    /\ UNCHANGED <<editor, filter, savedSel, selected, element, async, commands>>

\* isCharacterLimitExceeded(), the limit configured
isCharacterLimitExceeded(nodes) == Len(textContent(nodes)) > CharacterLimit

\* trimDataToCharacterLimit(data)
trimDataToCharacterLimit(nodes, data) ==
    LET editorTextLength == Len(textContent(nodes))
        charDiff == CharacterLimit - editorTextLength
        allowedDataLength == IF charDiff > 0 THEN charDiff ELSE 0
    IN  IF editorTextLength + Len(data) >= CharacterLimit
        THEN SubSeq(data, 1, Min(allowedDataLength, Len(data)))
        ELSE data

\* keydown of a character key, no meta key held: unless the handler prevents
\* it the browser puts the character in place of the selection (the text is
\* kept here in one text node, the cursor after the character)
KeyDown(ch) ==
    /\ pc = "limit"
    /\ ~isCharacterLimitExceeded(container)
    /\ LET put == insertDataAtCursor(container, range, <<ch>>)
           at == Len(textContent(SubSeq(put.nodes, 1, put.range.sc)))
       IN  /\ container' = <<textContent(put.nodes)>>
           /\ range' = Range(1, at, 1, at)
    /\ UNCHANGED <<editor, filter, pc, savedSel, selected, element, async, commands>>

\* the paste handler with inline data (a text): trimmed to the limit, then
\* inserted at the cursor
Paste(data) ==
    /\ pc = "limit"
    /\ LET put == insertDataAtCursor(container, range,
                                     trimDataToCharacterLimit(container, data))
           at == Len(textContent(SubSeq(put.nodes, 1, put.range.sc)))
       IN  /\ container' = IF put.nodes = container THEN container
                           ELSE <<textContent(put.nodes)>>
           /\ range' = IF put.nodes = container THEN range ELSE Range(1, at, 1, at)
    /\ UNCHANGED <<editor, filter, pc, savedSel, selected, element, async, commands>>

SelectionNext ==
    \/ SaveSelection
    \/ Rewrap
    \/ RestoreSelection
    \/ \E data \in {<<>>, <<"x">>, <<"x", "y">>} : InsertData(data)
    \/ \E charCode \in {34, 39} : DoQuote(charCode)
    \/ \E ch \in {"x"} : KeyDown(ch)
    \/ \E data \in {<<"x">>, <<"x", "y">>, <<"x", "y", "z">>} : Paste(data)
    \/ IsCursorAtStart

SelectionSpec == SelectionInit /\ [][SelectionNext]_vars

C23_NoSelectionNoChangeNoThrow ==
    [][(pc = "editing" /\ range.sc = Detached)
       => (container' = container /\ pc' # "thrown")]_vars

\* C25: with characterLimit configured and the text no longer than the
\* limit at first, no sequence of character keys and pastes makes the text
\* longer than the limit.
C25_TextStaysWithinCharacterLimit ==
    pc = "limit" => Len(textContent(container)) <= CharacterLimit

\* C29: saveSelection returns start = the number of characters of the
\* container's text that precede the start point of the range, whether that
\* point lies in a text node or in an element (a cursor in an empty
\* paragraph), and end = start + the length of the range's text.
C29_SavedStartIsTextBeforeStartPoint ==
    pc \in {"saved", "selection saved"} =>
        /\ savedSel.start = charsBefore(container, range.sc, range.so)
        /\ savedSel.end = savedSel.start + Len(toString(container, range))

\* C30: isCursorAtStart(element) is true exactly when the selection is a
\* cursor inside the element and no text of the element lies before it.
C30_CursorAtStartIffNoTextBefore ==
    pc \in {"at start", "not at start"} =>
        LET collapsed == <<range.sc, range.so>> = <<range.ec, range.eo>>
            inside == range.sc < Detached \/ range.sc \in element.first..element.last
            textBeforeCursor ==
                IF range.sc < Detached THEN 0
                ELSE Len(textContent(SubSeq(container, element.first, range.sc - 1))) + range.so
        IN  (pc = "at start") <=> (collapsed /\ inside /\ textBeforeCursor = 0)

(* ---- the sanitizer (src/src/sanitize.js) ---- *)
\* A node is a text node (tag "#text") with its text, or an element with its
\* attributes (name and value, in order) and its child nodes. The value of an
\* attribute is the sequence of its characters.
MaxRuns == 2

Text(t) == [tag |-> "#text", attrs |-> <<>>, kids |-> <<>>, text |-> t]
Element(tag, attrs, kids) == [tag |-> tag, attrs |-> attrs, kids |-> kids, text |-> ""]
Attr(name, value) == [name |-> name, value |-> value]

\* String.prototype.toLowerCase
toLowerCase(v) ==
    LET upper == <<"A", "B", "C", "D", "E", "F", "G", "H", "I", "J", "K", "L", "M",
                   "N", "O", "P", "Q", "R", "S", "T", "U", "V", "W", "X", "Y", "Z">>
        lower == <<"a", "b", "c", "d", "e", "f", "g", "h", "i", "j", "k", "l", "m",
                   "n", "o", "p", "q", "r", "s", "t", "u", "v", "w", "x", "y", "z">>
    IN  [i \in DOMAIN v |->
            IF \E k \in DOMAIN upper : upper[k] = v[i]
            THEN lower[CHOOSE k \in DOMAIN upper : upper[k] = v[i]]
            ELSE v[i]]

\* value.indexOf(prefix) === 0
startsWith(value, prefix) ==
    Len(prefix) <= Len(value) /\ SubSeq(value, 1, Len(prefix)) = prefix

\* Node.normalize() on the child nodes of a node
RECURSIVE normalize(_)
normalize(nodes) ==
    IF nodes = <<>> THEN <<>>
    ELSE LET h == Head(nodes)
             t == normalize(Tail(nodes))
         IN  IF h.tag # "#text" THEN <<[h EXCEPT !.kids = normalize(@)]>> \o t
             ELSE IF h.text = "" THEN t
             ELSE IF t # <<>> /\ Head(t).tag = "#text"
                  THEN <<Text(h.text \o Head(t).text)>> \o Tail(t)
             ELSE <<h>> \o t

\* new Sanitize(options): config.attributes and config.protocols are the
\* objects of the options, and the constructor gives the former an ALL entry
Sanitize(options) ==
    [options EXCEPT !.attributes =
        [k \in DOMAIN @ \cup {ALL} |-> IF k \in DOMAIN @ THEN @[k] ELSE <<>>]]

\* _merge_arrays_uniq of two arrays (neither repeats a name)
merge_arrays_uniq(a, b) ==
    a \o SelectSeq(b, LAMBDA x : \A k \in DOMAIN a : a[k] # x)

protocolCheckOff(attr_value_lc, protocols) == [ok |-> TRUE, i |-> 0]

\* the for-in loop over the protocols: whether one is a prefix of the value,
\* and the index (from 0) at which the loop leaves the variable i
protocolCheck(attr_value_lc, protocols) ==
    LET hits == {k \in DOMAIN protocols : startsWith(attr_value_lc, toLowerCase(protocols[k]))}
    IN  IF hits = {} THEN [ok |-> FALSE, i |-> Len(protocols) - 1]
        ELSE [ok |-> TRUE, i |-> (CHOOSE k \in hits : \A j \in hits : k <= j) - 1]

\* the loop over allowed_attributes from index i (from 0) on; the protocol
\* loop runs on the same variable i. When a protocol matches at an index
\* below i the outer loop comes back to i with the same value and the same
\* first match, and so for ever: hangs. setAttributeNode replaces an
\* attribute of the name that is set already.
RECURSIVE cleanAttributes(_, _, _, _, _)
cleanAttributes(elem, config, allowed_attributes, i, attrs) ==
    IF i >= Len(allowed_attributes)
    THEN [attrs |-> attrs, config |-> config, hangs |-> FALSE]
    ELSE LET name == elem.tag
             attr_name == allowed_attributes[i + 1]
             found == {k \in DOMAIN elem.attrs : elem.attrs[k].name = attr_name}
             attr == elem.attrs[CHOOSE k \in found : \A j \in found : k <= j]
             checked == /\ name \in DOMAIN config.protocols
                        /\ attr_name \in DOMAIN config.protocols[name]
             protocols == Append(config.protocols[name][attr_name], RELATIVE)
             check == protocolCheck(toLowerCase(attr.value), protocols)
             set == IF \E k \in DOMAIN attrs : attrs[k].name = attr_name
                    THEN attrs ELSE Append(attrs, attr)
         IN  IF found = {}
             THEN cleanAttributes(elem, config, allowed_attributes, i + 1, attrs)
             ELSE IF ~checked
             THEN cleanAttributes(elem, config, allowed_attributes, i + 1, set)
             ELSE IF check.ok /\ check.i + 1 <= i
             THEN [attrs |-> set,
                   config |-> [config EXCEPT !.protocols[name][attr_name] = protocols],
                   hangs |-> TRUE]
             ELSE cleanAttributes(elem,
                      [config EXCEPT !.protocols[name][attr_name] = protocols],
                      allowed_attributes, check.i + 1,
                      IF check.ok THEN set ELSE attrs)

RECURSIVE clean(_, _)

cleanElementDroppingChildren(elem, config) ==
    LET name == elem.tag
        allowed == name \in config.elements
        own == IF name \in DOMAIN config.attributes THEN config.attributes[name] ELSE <<>>
        a == IF allowed
             THEN cleanAttributes(elem, config,
                      merge_arrays_uniq(own, config.attributes[ALL]), 0, <<>>)
             ELSE [attrs |-> <<>>, config |-> config, hangs |-> FALSE]
        c == IF name \in config.remove_contents
             THEN [nodes |-> <<>>, config |-> a.config, hangs |-> FALSE]
             ELSE clean(elem.kids, a.config)
    IN  IF allowed
        THEN [nodes |-> <<Element(name, a.attrs, normalize(c.nodes))>>, config |-> c.config,
              hangs |-> a.hangs \/ c.hangs]
        ELSE [nodes |-> <<>>, config |-> c.config, hangs |-> c.hangs]

\* _clean_element: what it appends to the current element, and the config
\* afterwards; hangs: it does not return. No transformer is configured, and
\* of the tags with class names (hr) none is in the inputs.
cleanElement(elem, config) ==
    LET name == elem.tag
        allowed == name \in config.elements
        own == IF name \in DOMAIN config.attributes THEN config.attributes[name] ELSE <<>>
        a == IF allowed
             THEN cleanAttributes(elem, config,
                      merge_arrays_uniq(own, config.attributes[ALL]), 0, <<>>)
             ELSE [attrs |-> <<>>, config |-> config, hangs |-> FALSE]
        c == IF name \in config.remove_contents
             THEN [nodes |-> <<>>, config |-> a.config, hangs |-> FALSE]
             ELSE clean(elem.kids, a.config)
    IN  IF allowed
        THEN [nodes |-> <<Element(name, a.attrs, normalize(c.nodes))>>, config |-> c.config,
              hangs |-> a.hangs \/ c.hangs]
        ELSE c

\* _clean on each node of a list of child nodes
clean(nodes, config) ==
    IF nodes = <<>> THEN [nodes |-> <<>>, config |-> config, hangs |-> FALSE]
    ELSE LET h == IF Head(nodes).tag = "#text"
                  THEN [nodes |-> <<Head(nodes)>>, config |-> config, hangs |-> FALSE]
                  ELSE cleanElement(Head(nodes), config)
             t == clean(Tail(nodes), h.config)
         IN  [nodes |-> h.nodes \o t.nodes, config |-> t.config,
              hangs |-> h.hangs \/ t.hangs]

\* new Sanitize(options).clean_node(container): the child nodes of the
\* fragment, and the options afterwards; hangs: the call does not return
clean_node(nodes, options) ==
    LET c == clean(nodes, Sanitize(options))
    IN  [nodes |-> normalize(c.nodes), config |-> c.config, hangs |-> c.hangs]

\* attribute values of the inputs: "http:x", "https:x", "HTTP:x", "mailto:x",
\* "javascript:x", "/r" and "__relative__x"
Hrefs ==
    {<<"h", "t", "t", "p", ":", "x">>, <<"h", "t", "t", "p", "s", ":", "x">>,
     <<"H", "T", "T", "P", ":", "x">>, <<"m", "a", "i", "l", "t", "o", ":", "x">>,
     <<"j", "a", "v", "a", "s", "c", "r", "i", "p", "t", ":", "x">>,
     <<"/", "r">>,
     <<"_", "_", "r", "e", "l", "a", "t", "i", "v", "e", "_", "_", "x">>}

\* '<div>Hello <script>bad()</script>World</div>'
Example ==
    <<Element("div", <<>>,
              <<Text("Hello "), Element("script", <<>>, <<Text("bad()")>>), Text("World")>>)>>

\* the trees handed to the sanitizer: a node with at most one sibling on each
\* side; the node is a leaf or an element around at most two leaves or around
\* one more element
Trees ==
    LET leaves == {Text("x"), Element("b", <<>>, <<>>)}
                  \cup {Element("a", <<Attr("href", h)>>, <<>>) : h \in Hrefs}
        wrappers == {"div", "span", "p", "script"}
        children ==
            {<<>>} \cup {<<l>> : l \in leaves} \cup {<<l, m>> : l \in leaves, m \in leaves}
            \cup {<<Element(t, <<>>, <<l>>)>> : t \in wrappers, l \in leaves}
        siblings == {<<>>, <<Text("y")>>, <<Element("b", <<>>, <<>>)>>}
    IN  {pre \o <<n>> \o post :
            pre \in siblings, post \in siblings,
            n \in leaves \cup {Element(t, <<>>, c) : t \in wrappers, c \in children}}

\* the links handed to the sanitizer: an a with an href, a title, an
\* attribute that is not allowed, or several of them in either order
Links ==
    LET attrs == {Attr("href", h) : h \in Hrefs}
                 \cup {Attr("title", <<"t">>), Attr("onclick", <<"o">>)}
    IN  {<<Element("a", <<a>>, <<>>)>> : a \in attrs}
        \cup {<<Element("a", <<q[1], q[2]>>, <<>>)>> :
                 q \in {q \in attrs \X attrs : q[1].name # q[2].name}}

\* the editor's filter rules with the allowed attributes of a and the
\* protocols of its href in each order
Orderings ==
    LET http == <<"h", "t", "t", "p">>
        https == <<"h", "t", "t", "p", "s">>
        mailto == <<"m", "a", "i", "l", "t", "o">>
    IN  {[FilterRules EXCEPT !.attributes.a = a, !.protocols.a.href = p] :
            a \in {<<"href", "title">>, <<"title", "href">>},
            p \in {<<http, https, mailto>>, <<http, mailto, https>>,
                   <<https, http, mailto>>, <<https, mailto, http>>,
                   <<mailto, http, https>>, <<mailto, https, http>>}}

\* the markup handed to the iframe rules: up to two nodes, each an iframe,
\* bare or in a paragraph, with or without a src ("", "u") and with or
\* without a data-original-src of its own ("v"), or an image
IFrameTrees ==
    LET srcs == {<<>>, <<Attr("src", <<>>)>>, <<Attr("src", <<"u">>)>>}
        origs == {<<>>, <<Attr("data-original-src", <<"v">>)>>}
        iframes == {Element("iframe", a \o b, <<>>) : a \in srcs, b \in origs}
        nodes == iframes \cup {Element("p", <<>>, <<i>>) : i \in iframes}
                 \cup {Element("img", <<Attr("src", <<"u">>)>>, <<>>)}
    IN  {<<n>> : n \in nodes} \cup {<<n, m>> : n \in iframes, m \in nodes}

\* filter rules of an editor configured with a third allowed attribute for a
\* (rel) and with http as the only protocol of its href, or the three
Configurations ==
    {[FilterRules EXCEPT !.attributes.a = <<"href", "rel", "title">>,
                         !.protocols.a.href = p] :
        p \in {<<<<"h", "t", "t", "p">>>>, FilterRules.protocols.a.href}}

FilterInit ==
    /\ EditorInit
    /\ SelectionOff
    /\ AsyncOff
    /\ CommandOff
    /\ \/ pc \in {"filter", "setData"} /\ input \in Trees \cup {Example}
       \/ pc = "iframes" /\ input \in IFrameTrees
       \/ pc \in {"attributes", "configured"} /\ input \in Links
    /\ output = <<>>
    /\ sanitizeConfig \in IF pc = "attributes" THEN Orderings
                          ELSE IF pc = "configured" THEN Configurations
                          ELSE {FilterRules}

\* new Sanitize(this.sanitizeConfig).clean_node(node), as filterHTML runs it
CleanNode ==
    /\ pc \in {"filter", "attributes", "configured"}
    /\ Len(output) < MaxRuns
    /\ \E c \in {clean_node(input, sanitizeConfig)} :
           /\ output' = IF c.hangs THEN output ELSE Append(output, c.nodes)
           /\ sanitizeConfig' = c.config
           /\ pc' = IF c.hangs THEN "hangs" ELSE pc
    /\ UNCHANGED <<editor, selection, input, async, commands>>


\* the tags of the elements among the nodes, in order
tagNames(nodes) ==
    LET elements == SelectSeq(nodes, LAMBDA n : n.tag # "#text")
    IN  [k \in DOMAIN elements |-> elements[k].tag]

\* C12: an element D that is not allowed (and whose contents are not stripped)
\* is removed and its allowed children take its place, in their order: with
\* only text and allowed elements beside and below D, the elements of the
\* output are those before D, those in D and those after D.
C12_DisallowedElementIsUnwrapped ==
    pc = "filter" /\ output # <<>> =>
        \A i \in DOMAIN input :
            LET D == input[i]
                pre == SubSeq(input, 1, i - 1)
                post == SubSeq(input, i + 1, Len(input))
                kept(nodes) == \A k \in DOMAIN nodes :
                    \/ nodes[k].tag = "#text"
                    \/ /\ nodes[k].tag \in FilterRules.elements
                       /\ nodes[k].tag \notin FilterRules.remove_contents
            IN  /\ D.tag \notin FilterRules.elements \cup FilterRules.remove_contents \cup {"#text"}
                /\ kept(pre) /\ kept(post) /\ kept(D.kids)
                => tagNames(output[1]) = tagNames(pre) \o tagNames(D.kids) \o tagNames(post)

C12_Witness ==
    /\ pc = "filter" /\ output # <<>>
    /\ Len(input) = 3
    /\ input[2].tag = "div"
    /\ tagNames(input[2].kids) = <<"a", "b">>
    /\ tagNames(output[1]) = <<"b", "a", "b", "b">>

\* the values of the attributes called name on the elements called tag, at any depth
RECURSIVE attrValues(_, _, _)
attrValues(nodes, tag, name) ==
    UNION {attrValues(nodes[k].kids, tag, name)
             \cup {nodes[k].attrs[j].value : j \in {x \in DOMAIN nodes[k].attrs :
                         nodes[k].tag = tag /\ nodes[k].attrs[x].name = name}} :
           k \in DOMAIN nodes}

C14_RelativeReferenceSurvives ==
    pc = "filter" =>
        \A k \in DOMAIN output : \A i \in DOMAIN input :
            <<"/", "r">> \in attrValues(<<input[i]>>, "a", "href") /\ input[i].tag = "a"
            => <<"/", "r">> \in attrValues(output[k], "a", "href")

\* C15: a run of the sanitizer leaves the editor's filter rules as they were.
C15_SanitizerLeavesConfigUnchanged ==
    [][sanitizeConfig' = sanitizeConfig]_vars

(* ---- the block rules on a tree (src/src/dataFilter.js) ---- *)
blockElements == {"p", "figure", "h2", "blockquote", "ul", "ol", "pre"}
mediaElements == {"figure", "iframe", "img", "hr"}

\* $(rootNode).find('*'): the elements below the node list, in document order
RECURSIVE find(_)
find(nodes) ==
    IF nodes = <<>> THEN <<>>
    ELSE (IF Head(nodes).tag = "#text" THEN <<>>
          ELSE <<Head(nodes)>> \o find(Head(nodes).kids)) \o find(Tail(nodes))

\* $(element).text()
RECURSIVE innerText(_)
innerText(nodes) ==
    IF nodes = <<>> THEN ""
    ELSE (IF Head(nodes).tag = "#text" THEN Head(nodes).text
          ELSE innerText(Head(nodes).kids)) \o innerText(Tail(nodes))

\* getBlockNodes keeps an element: a block, or one with contenteditable="false"
isBlockNode(n) ==
    \/ n.tag \in blockElements
    \/ \E k \in DOMAIN n.attrs :
          n.attrs[k] = Attr("contenteditable", <<"f", "a", "l", "s", "e">>)

isAppendedUnlessEmptyWrapper(block) ==
    LET off == \E k \in DOMAIN block.attrs :
                   block.attrs[k] = Attr("contenteditable", <<"f", "a", "l", "s", "e">>)
        empty == /\ innerText(block.kids) = ""
                 /\ block.tag \notin mediaElements
                 /\ \A k \in DOMAIN find(block.kids) :
                        find(block.kids)[k].tag \notin mediaElements
        hasBlockChildren == \E k \in DOMAIN block.kids : block.kids[k].tag \in blockElements
    IN  off \/ ~(empty /\ hasBlockChildren)

\* the test of flattenBlocksDown on a block node: it goes to the root
isAppended(block) ==
    LET off == \E k \in DOMAIN block.attrs :
                   block.attrs[k] = Attr("contenteditable", <<"f", "a", "l", "s", "e">>)
        empty == /\ innerText(block.kids) = ""
                 /\ block.tag \notin mediaElements
                 /\ \A k \in DOMAIN find(block.kids) :
                        find(block.kids)[k].tag \notin mediaElements
        hasBlockChildren == \E k \in DOMAIN block.kids : block.kids[k].tag \in blockElements
    IN  off \/ (~empty /\ ~hasBlockChildren)

blockifyNodesElementsOnly(nodes) ==
    LET n == normalize(nodes)
    IN  [k \in DOMAIN n |->
            IF n[k].tag = "#text" THEN n[k]
            ELSE IF n[k].tag \in blockElements \cup mediaElements \cup {"div", "hr"}
                 THEN n[k]
            ELSE Element("p", <<>>, <<n[k]>>)]

\* blockifyInlineNodes: floating text and root level inline elements go into
\* paragraphs of their own
blockifyNodes(nodes) ==
    LET n == normalize(nodes)
    IN  [k \in DOMAIN n |->
            IF n[k].tag = "#text"
            THEN (IF n[k].text \in {"", " "} THEN n[k] ELSE Element("p", <<>>, <<n[k]>>))
            ELSE IF n[k].tag \in blockElements \cup mediaElements \cup {"div", "hr"}
                 THEN n[k]
            ELSE Element("p", <<>>, <<n[k]>>)]

\* what is left of the child nodes of an element once the block nodes below
\* it that go to the root have gone
RECURSIVE withoutAppended(_)
withoutAppended(nodes) ==
    IF nodes = <<>> THEN <<>>
    ELSE LET h == Head(nodes)
         IN  (IF h.tag = "#text" THEN <<h>>
              ELSE IF isBlockNode(h) /\ isAppended(h) THEN <<>>
              ELSE <<[h EXCEPT !.kids = withoutAppended(@)]>>)
             \o withoutAppended(Tail(nodes))

\* flattenBlocksDown on the child nodes of rootNode. The block nodes are
\* tested in document order, each before any node below it has moved, and
\* $(rootNode).append(block) takes a block out of the element it was in.
flattenBlocks(nodes, preserveInline) ==
    LET n == normalize(nodes)
        inline == preserveInline /\ \A k \in DOMAIN find(n) : ~isBlockNode(find(n)[k])
        blockNodes == SelectSeq(find(blockifyNodes(n)), LAMBDA b : isBlockNode(b) /\ isAppended(b))
    IN  IF inline THEN n
        ELSE [k \in DOMAIN blockNodes |->
                 [blockNodes[k] EXCEPT !.kids = withoutAppended(@)]]

\* the trees handed to the block rules: text ("x", or " " for white space),
\* images, and p, blockquote, b and div[contenteditable=false] elements around
\* them, up to three elements deep; and the documents of three root blocks,
\* each a paragraph or a media holder
BlockTrees ==
    LET leaves == {Text("x"), Text(" "), Element("img", <<>>, <<>>)}
        around(kids) ==
            {Element(t, <<>>, k) : t \in {"p", "blockquote", "b"}, k \in kids}
            \cup {Element("div", <<Attr("contenteditable", <<"f", "a", "l", "s", "e">>)>>, k) :
                     k \in kids}
        upTo2(ns) == {<<>>} \cup {<<n>> : n \in ns} \cup {<<n, m>> : n \in ns, m \in ns}
        upTo1(ns) == {<<>>} \cup {<<n>> : n \in ns}
        n1 == leaves \cup around(upTo2(leaves))
        n2 == n1 \cup around(upTo1(n1))
        n3 == n2 \cup around(upTo1(n2))
        roots == {Element("p", <<>>, <<Text("x")>>),
                  Element("div", <<Attr("contenteditable", <<"f", "a", "l", "s", "e">>)>>,
                          <<Element("img", <<>>, <<>>)>>)}
    IN  {<<n>> : n \in n3} \cup {<<n, m>> : n \in n1, m \in n1}
        \cup {<<n, m, o>> : n \in roots, m \in roots, o \in roots}

BlockInit ==
    /\ EditorInit
    /\ SelectionOff
    /\ AsyncOff
    /\ CommandOff
    /\ pc \in {"flatten", "flatten inline"}
    /\ input \in BlockTrees
    /\ output = <<>>
    /\ sanitizeConfig = FilterRules

\* flattenBlocksDown(rootNode, preserveInline), on what the call before left
FlattenBlocksDown ==
    /\ pc \in {"flatten", "flatten inline"}
    /\ Len(output) < MaxRuns
    /\ output' = Append(output, flattenBlocks(IF output = <<>> THEN input ELSE output[Len(output)],
                                              pc = "flatten inline"))
    /\ UNCHANGED <<editor, pc, selection, input, sanitizeConfig, async, commands>>

\* doBlock('blockquote') with the root elements i..j in the selection: each
\* run of text blocks among them is wrapped in one blockquote
wrapAllAcrossMedia(nodes, k, j, stack) ==
    <<Element("blockquote", <<>>, SubSeq(nodes, k, j))>> \o SubSeq(nodes, j + 1, Len(nodes))

RECURSIVE wrapAll(_, _, _, _)
wrapAll(nodes, k, j, stack) ==
    LET quote == IF stack = <<>> THEN <<>> ELSE <<Element("blockquote", <<>>, stack)>>
    IN  IF k > j THEN quote \o SubSeq(nodes, k, Len(nodes))
        ELSE IF nodes[k].tag \in {"p", "h2", "blockquote", "ul", "ol", "pre"}
             THEN wrapAll(nodes, k + 1, j, Append(stack, nodes[k]))
        ELSE quote \o <<nodes[k]>> \o wrapAll(nodes, k + 1, j, <<>>)

\* applyCommand('formatBlock', 'blockquote') on the document setData left,
\* the selection spanning the root elements i..j, none of them a formatted
\* block (h2, blockquote, pre) or a list: nothing to inverse or outdent
DoBlock(i, j) ==
    /\ pc = "flatten"
    /\ output # <<>> /\ Len(output) < MaxRuns
    /\ LET root == output[Len(output)]
       IN  /\ i \in DOMAIN root /\ j \in DOMAIN root /\ i <= j
           /\ \A k \in i..j : root[k].tag \notin {"h2", "blockquote", "pre", "ul", "ol"}
           /\ output' = Append(output, SubSeq(root, 1, i - 1) \o wrapAll(root, i, j, <<>>))
    /\ pc' = "formatted"
    /\ UNCHANGED <<editor, selection, input, sanitizeConfig, async, commands>>

BlockNext ==
    \/ FlattenBlocksDown
    \/ \E i \in 1..MaxNodes, j \in 1..MaxNodes : DoBlock(i, j)

BlockSpec == BlockInit /\ [][BlockNext]_vars

\* C16: flattenBlocksDown run on its own result changes nothing, whatever the
\* tree and the preserve-inline flag.
C16_FlattenBlocksDownIdempotent ==
    pc \in {"flatten", "flatten inline"} /\ Len(output) = 2
        => normalize(output[2]) = normalize(output[1])

\* C17: in the document that setData's block rules leave, and after block
\* formatting commands on it, no block (p, h2, blockquote, ul, ol, pre, media
\* holder) lies inside another block.
C17_NoBlockInsideABlock ==
    pc \in {"flatten", "formatted"} /\ output # <<>> =>
        LET Block(n) ==
                \/ n.tag \in {"p", "h2", "blockquote", "ul", "ol", "pre"}
                \/ \E k \in DOMAIN n.attrs : n.attrs[k].name = "contenteditable"
            all == find(output[Len(output)])
        IN  \A k \in DOMAIN all : Block(all[k]) =>
                \A d \in DOMAIN find(all[k].kids) : ~Block(find(all[k].kids)[d])

\* the root children that flattenBlocksDown left are, in document order, the
\* collected nodes of the tree before it that keep(_) accepts (a node is
\* named by its tag and attributes), unless the preserve-inline short-circuit
\* applied
reAppended(rootNodes, flat, preserveInline, keep(_)) ==
    LET collected == SelectSeq(find(blockifyNodes(rootNodes)), isBlockNode)
        shortCircuit == preserveInline /\ \A k \in DOMAIN find(normalize(rootNodes)) :
                                             ~isBlockNode(find(normalize(rootNodes))[k])
        named(ns) == [k \in DOMAIN ns |-> <<ns[k].tag, ns[k].attrs>>]
    IN  ~shortCircuit => named(flat) = named(SelectSeq(collected, keep))

\* C28 as stated: flattenBlocksDown omits a collected block only if it is
\* editable, bears no media, is empty and has block children of its own;
\* every other collected node is a root child of the result, in document
\* order.
C28_OnlyEmptyWrappersAreOmitted ==
    pc \in {"flatten", "flatten inline"} /\ output # <<>> =>
        LET keep(b) ==
                LET off == \E k \in DOMAIN b.attrs : b.attrs[k].name = "contenteditable"
                    media == \/ b.tag \in mediaElements
                             \/ \E k \in DOMAIN find(b.kids) : find(b.kids)[k].tag \in mediaElements
                    empty == innerText(b.kids) = ""
                    blocks == \E k \in DOMAIN b.kids : b.kids[k].tag \in blockElements
                IN  ~(~off /\ ~media /\ empty /\ blocks)
        IN  reAppended(input, output[1], pc = "flatten inline", keep)

\* C28 amended: flattenBlocksDown omits a collected block exactly when it is
\* editable and either has block children of its own or is empty (no text,
\* no media); every other collected node is a root child of the result, in
\* document order.
C28_WrappersAndEmptyBlocksAreOmitted ==
    pc \in {"flatten", "flatten inline"} /\ output # <<>> =>
        LET keep(b) ==
                LET off == \E k \in DOMAIN b.attrs : b.attrs[k].name = "contenteditable"
                    media == \/ b.tag \in mediaElements
                             \/ \E k \in DOMAIN find(b.kids) : find(b.kids)[k].tag \in mediaElements
                    empty == innerText(b.kids) = ""
                    blocks == \E k \in DOMAIN b.kids : b.kids[k].tag \in blockElements
                IN  off \/ ~(blocks \/ (empty /\ ~media))
        IN  reAppended(input, output[1], pc = "flatten inline", keep)

\* a blockquote around a paragraph with text is flattened: the blockquote, not
\* empty, is omitted and the paragraph is the root child
C28_Witness ==
    /\ pc = "flatten" /\ output # <<>>
    /\ input = <<Element("blockquote", <<>>, <<Element("p", <<>>, <<Text("x")>>)>>)>>
    /\ output[1] = <<Element("p", <<>>, <<Text("x")>>)>>

RECURSIVE removeEmptyParagraphs(_)
removeEmptyParagraphs(nodes) ==
    IF nodes = <<>> THEN <<>>
    ELSE LET h == Head(nodes)
         IN  (IF h.tag = "p" /\ h.kids \in {<<>>, <<Text(" ")>>} THEN <<>>
              ELSE <<[h EXCEPT !.kids = removeEmptyParagraphs(@)]>>)
             \o removeEmptyParagraphs(Tail(nodes))

\* setData(data, true, true) on markup without media: filterHTML, setRawData,
\* flattenBlocksDown, enforceBlockContext (no block at all: EMPTY_DATA),
\* enforceMediaHolders (nothing to wrap), enforceEndingTextBlock
setDataNodes(nodes, options) ==
    LET empty == <<Element("p", <<>>, <<Element("br", <<>>, <<>>)>>)>>
        hasTextBlock(flat) == \E k \in DOMAIN flat :
                                  flat[k].tag \in {"p", "h2", "blockquote", "ul", "ol", "pre"}
        enforce(flat) == IF flat = <<>> THEN empty
                         ELSE IF hasTextBlock(flat) THEN flat ELSE flat \o empty
        blockRules(c) ==
            [nodes |-> enforce(flattenBlocks(removeEmptyParagraphs(c.nodes), FALSE)),
             config |-> c.config]
    IN  blockRules(clean_node(nodes, options))

\* getData() on a document without media holders, fake blocks and image
\* keys: the markup of the element, read into a node and written out again
getDataNodes(nodes) == normalize(nodes)

\* editor.setData(data, true, true); editor.getData(). The data is markup:
\* a tree the parser gives back, no p or div inside a p
SetDataGetData ==
    /\ pc = "setData"
    /\ LET noBlocks(below) == \A d \in DOMAIN below : below[d].tag \notin {"p", "div"}
           parsed(all) == \A k \in DOMAIN all :
                              all[k].tag = "p" => noBlocks(find(all[k].kids))
       IN  parsed(find(input))
    /\ \E r \in {setDataNodes(input, sanitizeConfig)} :
           /\ output' = <<getDataNodes(r.nodes)>>
           /\ sanitizeConfig' = r.config
    /\ pc' = "getData"
    /\ UNCHANGED <<editor, selection, input, async, commands>>

(* ---- the iframe rules (src/src/dataFilter.js) ---- *)
\* $(el).attr(name, value), value the set of $(other).attr(...): with no
\* value (undefined) jQuery sets nothing
attr(el, name, value) ==
    IF value = {} THEN el
    ELSE LET v == CHOOSE x \in value : TRUE
         IN  IF \E k \in DOMAIN el.attrs : el.attrs[k].name = name
             THEN [el EXCEPT !.attrs = [k \in DOMAIN @ |->
                                          IF @[k].name = name THEN Attr(name, v) ELSE @[k]]]
             ELSE [el EXCEPT !.attrs = Append(@, Attr(name, v))]

\* sanitizeIFrames on the nodes of the markup
RECURSIVE sanitizeIFrames(_)
sanitizeIFrames(nodes) ==
    [k \in DOMAIN nodes |->
        LET n == [nodes[k] EXCEPT !.kids = sanitizeIFrames(@)]
            src == {n.attrs[a].value : a \in {a \in DOMAIN n.attrs : n.attrs[a].name = "src"}}
        IN  IF n.tag # "iframe" THEN n
            ELSE attr(attr(n, "data-original-src", src), "src",
                      {<<"j", "a", "v", "a", "s", "c", "r", "i", "p", "t", ":", "'", "'">>})]

\* unSanitizeIFrames on the nodes of the markup
RECURSIVE unSanitizeIFrames(_)
unSanitizeIFrames(nodes) ==
    [k \in DOMAIN nodes |->
        LET n == [nodes[k] EXCEPT !.kids = unSanitizeIFrames(@)]
            orig == {n.attrs[a].value :
                        a \in {a \in DOMAIN n.attrs : n.attrs[a].name = "data-original-src"}}
            back == attr(n, "src", orig)
        IN  IF n.tag # "iframe" \/ orig = {} THEN n
            ELSE [back EXCEPT !.attrs =
                     SelectSeq(@, LAMBDA a : a.name # "data-original-src")]]

\* setData(data) and then getData() with config.runIFrameSanitization, as far
\* as the iframes go
SanitizeIFrames ==
    /\ pc = "iframes"
    /\ output' = <<unSanitizeIFrames(sanitizeIFrames(input))>>
    /\ pc' = "iframes out"
    /\ UNCHANGED <<editor, selection, input, sanitizeConfig, async, commands>>

FilterNext == CleanNode \/ SetDataGetData \/ SanitizeIFrames

FilterSpec == FilterInit /\ [][FilterNext]_vars

\* C19: setData(x, true, true) and then getData() give x normalized: only
\* elements of the whitelist, nothing of the elements stripped with their
\* contents, every child of the root a block; the example
\* '<div>Hello <script>bad()</script>World</div>' gives '<p>Hello World</p>'.
C19_SetDataGetDataNormalizes ==
    pc = "getData" =>
        /\ input = Example => output[1] = <<Element("p", <<>>, <<Text("Hello World")>>)>>
        /\ \A k \in DOMAIN find(output[1]) : find(output[1])[k].tag \in FilterRules.elements
        /\ \A k \in DOMAIN find(output[1]) :
              find(output[1])[k].tag \notin FilterRules.remove_contents
        /\ \A k \in DOMAIN output[1] : output[1][k].tag \in blockElements
        /\ output[1] # <<>>

C19_Witness ==
    /\ pc = "getData"
    /\ input = Example
    /\ output[1] = <<Element("p", <<>>, <<Text("Hello World")>>)>>

(* ---- the listeners of async images ---- *)
(* An img element that insertAsyncImage made, or the one that took its      *)
(* place when the markup was set again:                                     *)
(*   key       its data-img-key attribute                                   *)
(*   present   it is inside the editor's element                            *)
(*   fetching  the browser is fetching its src (load or error is to come)   *)
(*   load      the one-time 'load.getImageAttributes' listener is bound     *)
(*   error     the one-time 'error' listener is bound                       *)
(*   added     the calls of config.onAsyncImageAdded with the key so far     *)

MaxImages == 2

\* _.uniqueId(): the counter, incremented first
uniqueId(counter) == counter + 1

\* getImageAttributes(img, callback) with insertAsyncImage's callback:
\* img.complete calls it at once, else the two one-time listeners are bound
getImageAttributes(img, complete) ==
    IF complete
    THEN [img EXCEPT !.added = @ + 1]
    ELSE [img EXCEPT !.load = TRUE, !.error = TRUE]

\* the load event: jQuery's one() unbinds the handler that ran, only that one
onload(img) ==
    IF img.load
    THEN [img EXCEPT !.fetching = FALSE, !.load = FALSE, !.added = @ + 1]
    ELSE [img EXCEPT !.fetching = FALSE]

\* the error event: the handler unbinds the load listener by its namespace,
\* one() unbinds the handler itself
onerror(img) ==
    IF img.error
    THEN [img EXCEPT !.fetching = FALSE, !.load = FALSE, !.error = FALSE, !.added = @ + 1]
    ELSE [img EXCEPT !.fetching = FALSE]

\* setRawData on the images: $(this.element).html(data), the elements inside lose their jQuery
\* listeners and leave the document; the markup's own img elements are new
cleanData(imgs, kept) ==
    [i \in DOMAIN imgs |->
        [imgs[i] EXCEPT !.present = i <= kept, !.fetching = i <= kept,
                        !.load = FALSE, !.error = FALSE]]

ImageInit ==
    /\ EditorInit
    /\ SelectionOff
    /\ FilterOff
    /\ CommandOff
    /\ pc = "images"
    /\ idCounter = 0
    /\ images = <<>>
    /\ failed = 0

\* addImageBySource(src) inside insertAsyncImage
AddImageBySource(complete) ==
    /\ pc = "images"
    /\ Len(images) < MaxImages
    /\ idCounter' = uniqueId(idCounter)
    /\ images' = Append(images,
                        getImageAttributes([key |-> uniqueId(idCounter), present |-> TRUE,
                                            fetching |-> ~complete, load |-> FALSE,
                                            error |-> FALSE, added |-> 0], complete))
    /\ UNCHANGED <<editor, pc, selection, filter, failed, commands>>

\* insertAsyncImage(source, file): source a string (string: TRUE, with its
\* value) or undefined, file a File or undefined; createObjectURL is there
InsertAsyncImageCall(source, file, complete) ==
    IF (~(source.string /\ source.value # "") /\ file) \/ source.string
    THEN AddImageBySource(complete)
    ELSE /\ pc = "images"
         /\ failed < MaxImages
         /\ failed' = failed + 1
         /\ UNCHANGED <<editor, pc, selection, filter, idCounter, images, commands>>

\* the browser ends a fetch with the load event
ImageLoad(i) ==
    /\ pc = "images"
    /\ i \in DOMAIN images
    /\ images[i].fetching
    /\ images' = [images EXCEPT ![i] = onload(@)]
    /\ UNCHANGED <<editor, pc, selection, filter, idCounter, failed, commands>>

\* the browser ends a fetch with the error event
ImageError(i) ==
    /\ pc = "images"
    /\ i \in DOMAIN images
    /\ images[i].fetching
    /\ images' = [images EXCEPT ![i] = onerror(@)]
    /\ UNCHANGED <<editor, pc, selection, filter, idCounter, failed, commands>>

\* updateAsyncImage(key, src) with a source, the image of the key in the
\* document: the new src starts a fetch
UpdateImageSource(i) ==
    /\ pc = "images"
    /\ i \in DOMAIN images
    /\ images[i].present
    /\ images' = [images EXCEPT ![i].fetching = TRUE]
    /\ UNCHANGED <<editor, pc, selection, filter, idCounter, failed, commands>>

\* undo() or redo(): restoreState sets the markup of a state that held the
\* first kept images
RestoreImages(kept) ==
    /\ pc = "images"
    /\ images # <<>>
    /\ kept \in 0..Len(images)
    /\ images' = cleanData(images, kept)
    /\ UNCHANGED <<editor, pc, selection, filter, idCounter, failed, commands>>

ImageNext ==
    \/ \E source \in [string : BOOLEAN, value : {"", "s1"}], file \in BOOLEAN,
          complete \in BOOLEAN :
          InsertAsyncImageCall(source, file, complete)
    \/ \E i \in 1..MaxImages : ImageLoad(i)
    \/ \E i \in 1..MaxImages : ImageError(i)
    \/ \E i \in 1..MaxImages : UpdateImageSource(i)
    \/ \E kept \in 0..MaxImages : RestoreImages(kept)

ImageSpec == ImageInit /\ [][ImageNext]_vars

\* C20: onAsyncImageAdded is called exactly once with the key of each
\* insertAsyncImage call, whatever happens to the image later (load, error,
\* a new source, undo, redo): never a second time, and once when no listener
\* is left to call it; the keys of distinct insertions differ.
C20_OnAsyncImageAddedExactlyOnce ==
    /\ \A i \in DOMAIN images : images[i].added <= 1
    /\ \A i \in DOMAIN images :
           (~images[i].load /\ ~images[i].error) => images[i].added = 1
    /\ \A i, j \in DOMAIN images : i # j => images[i].key # images[j].key

\* C22: insertAsyncImage with neither a usable source string (the empty
\* string is none) nor a file calls onAsyncImageFailed and inserts nothing:
\* no image, no key, no listener, no onAsyncImageAdded.
C22_NoSourceNoFileFails ==
    [][\A source \in [string : BOOLEAN, value : {"", "s1"}], complete \in BOOLEAN :
          (InsertAsyncImageCall(source, FALSE, complete)
           /\ ~(source.string /\ source.value # ""))
          => /\ failed' = failed + 1
             /\ images' = images
             /\ idCounter' = idCounter]_vars

C27_CleanNodeTerminates ==
    pc # "hangs"

\* C24: unSanitizeIFrames(sanitizeIFrames(x)) gives every iframe the src it
\* had in x, none where it had none, and leaves no data-original-src.
C24_IFrameSanitizationIsReversed ==
    pc = "iframes out" =>
        LET was == find(input)
            is == find(output[1])
            values(n, name) ==
                {n.attrs[a].value : a \in {a \in DOMAIN n.attrs : n.attrs[a].name = name}}
        IN  /\ Len(is) = Len(was)
            /\ \A k \in DOMAIN was :
                   was[k].tag = "iframe" =>
                       /\ values(is[k], "src") = values(was[k], "src")
                       /\ values(is[k], "data-original-src") = {}

(* ---- applyCommand and inverseCommand (src/src/richTextEditor.js) ---- *)
\* The editor as far as a command reads and writes it is a record c of
\* rootNodes (the child nodes), context, spans and log. An entry of the log is a step of the
\* call with the document as it was at that step.
MaxRoots == 2
FORMATTED_BLOCKS == <<"h2", "blockquote", "pre">>
INDENTED_ELEMENTS == {"ul", "ol"}

logged(c, ev, name) ==
    [c EXCEPT !.log = Append(@, [ev |-> ev, name |-> name,
                                 rootNodes |-> c.rootNodes, spans |-> c.spans])]

\* the root elements in context, each replaced by the nodes given for it; the
\* selection is restored over them
replaceRootElements(c, replaced) ==
    LET RECURSIVE all(_)
        all(k) == IF k > c.context.to THEN <<>> ELSE replaced[k] \o all(k + 1)
        new == all(c.context.from)
    IN  IF c.context.from = 0 THEN c
        ELSE [c EXCEPT !.rootNodes = SubSeq(@, 1, c.context.from - 1) \o new
                                     \o SubSeq(@, c.context.to + 1, Len(@)),
                       !.context.to = c.context.from + Len(new) - 1]

\* window.document.execCommand of an inline format on the selection: the
\* browser may leave spans or style attributes (native)
execCommand(c, native) ==
    IF c.context.from # 0 /\ native THEN [c EXCEPT !.spans = TRUE] ELSE c

\* scrubSpansAndBadAttrs on SelectionContext.getNodeList(): no node without a
\* selection
cleanupNodesInContext(c) ==
    logged(IF c.context.from # 0 THEN [c EXCEPT !.spans = FALSE] ELSE c, "cleanup", "")

\* outdent while the start or end of the selection is in a list, then
\* paragraphs: each list item of a list in context becomes a paragraph
undoIndentedBlock(c) ==
    LET ends == IF c.context.from = 0 THEN {} ELSE {c.context.from, c.context.to}
        items(r) == [k \in DOMAIN r.kids |-> Element("p", <<>>, r.kids[k].kids)]
    IN  IF \A k \in ends : c.rootNodes[k].tag \notin INDENTED_ELEMENTS THEN c
        ELSE replaceRootElements(c,
                 [k \in DOMAIN c.rootNodes |->
                     IF c.rootNodes[k].tag \in INDENTED_ELEMENTS THEN items(c.rootNodes[k])
                     ELSE <<c.rootNodes[k]>>])

\* inverseCommand(command, elementName)
inverseCommand(c, command, native) ==
    LET off(r) == \E k \in DOMAIN r.attrs : r.attrs[k].name = "contenteditable"
        \* unBlock(rootNode), then the formatted block becomes a paragraph
        unformat(r) ==
            IF off(r) THEN <<r>>
            ELSE IF \E k \in DOMAIN r.kids : r.kids[k].tag \in blockElements THEN r.kids
            ELSE IF \E k \in DOMAIN FORMATTED_BLOCKS : r.tag = FORMATTED_BLOCKS[k]
                 THEN <<Element("p", <<>>, r.kids)>>
            ELSE <<r>>
        indented == undoIndentedBlock(c)
        done == IF command = "formatBlock"
                THEN replaceRootElements(indented,
                         [k \in DOMAIN indented.rootNodes |-> unformat(indented.rootNodes[k])])
                ELSE IF command \in {"insertOrderedList", "insertUnorderedList"} THEN indented
                ELSE execCommand(c, native)
    IN  logged(logged(cleanupNodesInContext(done), "schedule", ""), "onChange", "")

\* applyCommand(command, elementName, fromControl): fromControl is "none",
\* or a control that is "idle" or "animating"; active are the inline formats
\* contextualControls.getActiveStates() reports
applyCommand(c, command, elementName, fromControl, active, native) ==
    LET inContext == IF c.context.from = 0 THEN {} ELSE c.context.from..c.context.to
        \* doBlock: an inverseCommand for each formatted block type that the
        \* root elements (as they were at first) hold
        RECURSIVE inversed(_, _)
        inversed(d, k) ==
            IF k > Len(FORMATTED_BLOCKS) THEN d
            ELSE inversed(IF \E i \in inContext : c.rootNodes[i].tag = FORMATTED_BLOCKS[k]
                          THEN inverseCommand(d, "formatBlock", native) ELSE d,
                          k + 1)
        plain == undoIndentedBlock(inversed(c, 1))
        doBlock ==
            IF plain.context.from = 0 THEN plain
            ELSE IF elementName = "blockquote"
                 THEN [plain EXCEPT
                          !.rootNodes = SubSeq(@, 1, plain.context.from - 1)
                                        \o wrapAll(@, plain.context.from, plain.context.to, <<>>),
                          !.context.to = plain.context.to -
                              (Len(plain.rootNodes) -
                               Len(SubSeq(plain.rootNodes, 1, plain.context.from - 1)
                                   \o wrapAll(plain.rootNodes, plain.context.from,
                                              plain.context.to, <<>>)))]
            ELSE [plain EXCEPT
                     !.rootNodes = [k \in DOMAIN @ |->
                         IF k \in plain.context.from..plain.context.to
                            /\ @[k].tag \in {"p", "h2", "pre"}
                         THEN [@[k] EXCEPT !.tag = elementName] ELSE @[k]]]
        \* execCommand of a list on paragraphs: one list, an item for each
        doList ==
            IF inContext # {} /\ \A k \in inContext : c.rootNodes[k].tag = "p"
            THEN [c EXCEPT
                     !.rootNodes = SubSeq(@, 1, c.context.from - 1)
                         \o <<Element(IF command = "insertOrderedList" THEN "ol" ELSE "ul", <<>>,
                                      [k \in 1..(c.context.to - c.context.from + 1) |->
                                          Element("li", <<>>, @[c.context.from + k - 1].kids)])>>
                         \o SubSeq(@, c.context.to + 1, Len(@)),
                     !.context.to = c.context.from]
            ELSE c
        doRemoveFormat ==
            execCommand(IF "bold" \in active THEN inverseCommand(c, "bold", native) ELSE c, native)
        thrown == command = "createLink" /\ fromControl = "idle" /\ c.context.from = 0
        done == IF command = "formatBlock" THEN doBlock
                ELSE IF command = "createLink" THEN c
                ELSE IF command \in {"insertOrderedList", "insertUnorderedList"} THEN doList
                ELSE IF command = "removeFormat" THEN doRemoveFormat
                ELSE execCommand(c, native)
    IN  IF thrown THEN logged(c, "TypeError", "")
        ELSE logged(cleanupNodesInContext(logged(done, "schedule", "")), "onChange", "")

Commands ==
    {"formatBlock", "createLink", "insertOrderedList", "removeFormat", "insertHTML", "bold",
     "subscript"}

\* the documents of the commands: paragraphs, formatted blocks, a blockquote
\* of a paragraph, a media holder; all of the selected root elements, or no
\* selection
CommandInit ==
    /\ EditorInit
    /\ SelectionOff
    /\ FilterOff
    /\ AsyncOff
    /\ pc = "command"
    /\ LET roots == {Element(t, <<>>, <<Text("x")>>) : t \in {"p", "h2", "pre"}}
                    \cup {Element("blockquote", <<>>, <<Element("p", <<>>, <<Text("x")>>)>>),
                          Element("div", <<Attr("contenteditable", <<"f", "a", "l", "s", "e">>)>>,
                                  <<Element("img", <<>>, <<>>)>>)}
       IN  childNodes \in UNION {[1..n -> roots] : n \in 1..MaxRoots}
    /\ context \in {[from |-> 0, to |-> 0]}
                   \cup {cx \in [from : DOMAIN childNodes, to : DOMAIN childNodes] : cx.from <= cx.to}
    /\ spans \in BOOLEAN
    /\ log = <<>>

called(name) ==
    [rootNodes |-> childNodes, context |-> context, spans |-> spans,
     log |-> <<[ev |-> name, name |-> "", rootNodes |-> childNodes, spans |-> spans]>>]

ApplyCommand(command, elementName, fromControl, active, native) ==
    /\ pc = "command"
    /\ \E c \in {applyCommand([called("applyCommand") EXCEPT !.log[1].name = command],
                              command, elementName, fromControl, active, native)} :
           /\ childNodes' = c.rootNodes
           /\ context' = c.context
           /\ spans' = c.spans
           /\ log' = c.log
    /\ UNCHANGED <<editor, pc, selection, filter, async>>

InverseCommand(command, native) ==
    /\ pc = "command"
    /\ \E c \in {inverseCommand([called("inverseCommand") EXCEPT !.log[1].name = command],
                                command, native)} :
           /\ childNodes' = c.rootNodes
           /\ context' = c.context
           /\ spans' = c.spans
           /\ log' = c.log
    /\ UNCHANGED <<editor, pc, selection, filter, async>>

CommandNext ==
    \/ \E command \in Commands, elementName \in {"p", "h2", "pre", "blockquote"},
          fromControl \in {"none", "idle", "animating"}, active \in SUBSET {"bold"},
          native \in BOOLEAN :
           ApplyCommand(command, elementName, fromControl, active, native)
    \/ \E command \in Commands, native \in BOOLEAN : InverseCommand(command, native)

CommandSpec == CommandInit /\ [][CommandNext]_vars

\* C31: in every applyCommand and inverseCommand call, whatever the command
\* name, the scrub of the nodes in context runs before the change
\* notification, an interface refresh is scheduled, and the change
\* notification is issued.
C31_CleanupThenRefreshAndNotification ==
    pc = "command" /\ log # <<>> =>
        /\ \E k \in DOMAIN log : log[k].ev = "schedule"
        /\ \E k \in DOMAIN log : log[k].ev = "onChange"
        /\ \A k \in DOMAIN log :
               log[k].ev = "onChange" => \E j \in 1..(k - 1) : log[j].ev = "cleanup"

\* C38: applyCommand('formatBlock', type) on a selection that holds formatted
\* blocks notifies the change listeners only with the document that has the
\* new block type, never with the one the inverse step left.
C38_NoNotificationOfIntermediateDocument ==
    pc = "command" /\ log # <<>> /\ log[1].ev = "applyCommand" /\ log[1].name = "formatBlock" =>
        \A k \in DOMAIN log : log[k].ev = "onChange" => log[k].rootNodes = childNodes

(* ---- interface refreshes on documents with media (src/src/richTextEditor.js) ---- *)
MaxBlocks == 3
MaxRefreshes == 2

\* the editor after setData or an edit, before the refresh: paragraphs (with
\* text, empty, fake) and media holders in any order; no selection, one on the
\* editor element, or a cursor in a paragraph; lastSelection as a refresh or a
\* replaced tree left it
RefreshInit ==
    /\ pc = "refresh"
    /\ SelectionOff
    /\ FilterOff
    /\ AsyncOff
    /\ CommandOff
    /\ LET blocks == {P("a"), P("<br>"), createFakeBlock(P("<br>")),
                      [Media("figure", 0, "s1", 0) EXCEPT !.tag = "holder"]}
       IN  doc \in UNION {[1..n -> blocks] : n \in 1..MaxBlocks}
    /\ sel \in {NoSel, AtRoot}
               \cup {Cursor(i, 0, FALSE) : i \in {i \in DOMAIN doc : doc[i].tag = "p"}}
    /\ lastSelection \in {0, Detached} \cup {i \in DOMAIN doc : sel = Cursor(i, 0, FALSE)}
    /\ mediaTracker = <<>>
    /\ uiTimers = <<>>
    /\ edits = 0
    /\ currState = Null
    /\ undoStates = <<>>
    /\ redoStates = <<>>
    /\ isRestoring = FALSE
    /\ isTorndown = FALSE
    /\ hooked = TRUE
    /\ saverTimer = NoTimer
    /\ event = "init"
    /\ capture = "none"
    /\ scheduled = 0
    /\ suppressed = 0
    /\ restored = FALSE
    /\ notified = 0
    /\ sinceEdit = Late
    /\ runLength = 0
    /\ runCommits = 0
    /\ script = 0 - 1
    /\ undone = 0
    /\ preUndo = <<>>

\* runInterfaceUpdate(): one more timer, whatever is pending
RunInterfaceUpdate ==
    /\ pc = "refresh"
    /\ Len(uiTimers) < MaxRefreshes
    /\ Becomes(runInterfaceUpdate(Cur, REFRESH_DELAY), "runInterfaceUpdate", 0)

RefreshNext ==
    \/ RunInterfaceUpdate
    \/ \E k \in DOMAIN uiTimers : InterfaceUpdateFire(k)
    \/ Advance

RefreshSpec == RefreshInit /\ [][RefreshNext]_vars

\* C32: a refresh scheduled while another is pending cancels neither: a
\* pending refresh leaves only by running; and a refresh run right after a
\* refresh, with no edit or selection change in between, leaves the document
\* (fake blocks, media boundaries, ending text block, so the placeholder) as
\* the first left it.
C32_RefreshesAreKeptAndIdempotent ==
    /\ [][/\ event' = "runInterfaceUpdate" => uiTimers' = Append(uiTimers, REFRESH_DELAY)
          /\ Len(uiTimers') < Len(uiTimers)
                => event' = "interfaceUpdate" /\ Len(uiTimers') = Len(uiTimers) - 1]_vars
    /\ [](pc = "refresh" /\ event = "interfaceUpdate" => interfaceUpdate(Cur).doc = doc)

\* C33: after an interface refresh every media holder among the children of
\* the editor element has a previous and a next sibling, and the next is not
\* a media holder.
C33_MediaHoldersHaveEditableNeighbours ==
    pc = "refresh" /\ event = "interfaceUpdate" =>
        \A i \in DOMAIN doc :
            doc[i].tag = "holder" =>
                /\ i > 1 /\ i < Len(doc)
                /\ doc[i + 1].tag # "holder"

\* two media holders with nothing around them got a block before, between
\* and after
C33_Witness ==
    /\ pc = "refresh" /\ event = "interfaceUpdate"
    /\ Len(doc) = 5
    /\ doc[2].tag = "holder" /\ doc[4].tag = "holder"
    /\ doc[1].fake /\ doc[3].fake /\ doc[5].fake

\* C39: flattenBlocksDown leaves the subtree of every non-editable node
\* intact: each element with contenteditable="false" of the tree it ran on
\* is in the result with the child nodes it had.
C39_NonEditableSubtreesAreIntact ==
    pc \in {"flatten", "flatten inline"} /\ output # <<>> =>
        LET nodesBefore == find(normalize(input))
            nodesAfter == find(output[1])
        IN  \A j \in DOMAIN nodesBefore :
                (\E a \in DOMAIN nodesBefore[j].attrs : nodesBefore[j].attrs[a].name = "contenteditable")
                    => \E k \in DOMAIN nodesAfter : nodesAfter[k] = nodesBefore[j]

(* ---- media holders on a tree (src/src/richTextEditor.js) ---- *)
MEDIA_ELEMENTS == {"img", "iframe", "figure", "hr"}

mediaHolderClass == "media-holder"

\* $(element).hasClass(name): the class attribute is the list of its names
hasClass(n, name) ==
    \E a \in DOMAIN n.attrs :
        /\ n.attrs[a].name = "class"
        /\ \E c \in DOMAIN n.attrs[a].value : n.attrs[a].value[c] = name

isMediaHolderElement(n) == hasClass(n, mediaHolderClass)

\* the selector '[class=media-holder]' of findMediaHolder: the attribute is
\* that one name and nothing else
matchesHolderSelector(n) ==
    \E a \in DOMAIN n.attrs :
        n.attrs[a].name = "class" /\ n.attrs[a].value = <<mediaHolderClass>>

\* wrapInMediaHolder with the default mediaHolderCallback, mediaKillerMarkup
\* and mediaMoverMarkup (the glyphs written X and ^)
wrapInMediaHolder(el) ==
    LET draggable == /\ el.tag \in {"hr", "img", "figure"}
                     /\ \A k \in DOMAIN find(el.kids) :
                            find(el.kids)[k].tag # "iframe"
        classes == <<mediaHolderClass>>
                   \o (IF draggable THEN <<"media-holder-draggable">> ELSE <<>>)
                   \o <<"media-holder-" \o el.tag>>
        mediaKiller == Element("div", <<Attr("class", <<"media-killer">>)>>, <<Text("X")>>)
        mediaMover == Element("div", <<Attr("class", <<"media-mover">>)>>, <<Text("^")>>)
    IN  Element("div",
                <<Attr("class", classes),
                  Attr("contenteditable", <<"f", "a", "l", "s", "e">>),
                  Attr("draggable", <<"t", "r", "u", "e">>)>>,
                <<el, mediaKiller>> \o (IF draggable THEN <<>> ELSE <<mediaMover>>))

\* enforceMediaHolders below the editor el. held: findMediaHolder finds
\* an el from here upwards; hasMediaParents: a media el is among
\* the parents. A holder made on the way carries more than one class name and
\* is not matched by the selector.
RECURSIVE enforceMediaHoldersIn(_, _, _)
enforceMediaHoldersIn(nodes, held, hasMediaParents) ==
    [k \in DOMAIN nodes |->
        IF nodes[k].tag = "#text" THEN nodes[k]
        ELSE LET found == held \/ matchesHolderSelector(nodes[k])
                 inner == [nodes[k] EXCEPT !.kids =
                           enforceMediaHoldersIn(@, found,
                               hasMediaParents \/ nodes[k].tag \in MEDIA_ELEMENTS)]
             IN  IF nodes[k].tag \in MEDIA_ELEMENTS /\ ~found /\ ~hasMediaParents
                 THEN wrapInMediaHolder(inner) ELSE inner]

\* filterHTML when setData is asked to run the filter
filterForSetData(nodes, runFilter, options) ==
    IF ~runFilter THEN [nodes |-> nodes, config |-> options, hangs |-> FALSE]
    ELSE [clean_node(nodes, options) EXCEPT !.nodes = removeEmptyParagraphs(@)]

\* enforceBlockContext on an editor without a selection; lastBlock: the last
\* selection still names a block (of the document replaced)
enforceBlockContextIn(nodes, lastBlock) ==
    IF \/ lastBlock
       \/ \E k \in DOMAIN nodes :
              nodes[k].tag \in {"p", "figure", "h2", "blockquote", "ul", "ol", "div", "pre"}
    THEN nodes
    ELSE <<Element("p", <<>>, <<Element("br", <<>>, <<>>)>>)>>

enforceEndingTextBlockIn(nodes) ==
    IF \E k \in DOMAIN nodes : nodes[k].tag \in {"p", "h2", "blockquote", "ul", "ol", "pre"}
    THEN nodes
    ELSE nodes \o <<Element("p", <<>>, <<Element("br", <<>>, <<>>)>>)>>

\* setData(data, runFilter, runBlockRules) from setRawData on, on the nodes
\* of the markup
setDataOnMarkup(nodes, runBlockRules, lastBlock) ==
    enforceEndingTextBlockIn(
        enforceMediaHoldersIn(
            enforceBlockContextIn(IF runBlockRules THEN flattenBlocks(nodes, FALSE)
                                  ELSE blockifyNodes(nodes),
                                  lastBlock),
            FALSE, FALSE))

\* the markup handed to setData: text, paragraphs, media at the root and in a
\* paragraph or a figure, and media already in a holder of the one class
MediaTrees ==
    LET img == Element("img", <<>>, <<>>)
        figure == Element("figure", <<>>, <<img>>)
        held(media) ==
            Element("div", <<Attr("class", <<mediaHolderClass>>),
                             Attr("contenteditable", <<"f", "a", "l", "s", "e">>)>>,
                    <<media>>)
        nodes == {Text("x"), Element("p", <<>>, <<Text("x")>>), Element("p", <<>>, <<img>>),
                  img, figure, Element("hr", <<>>, <<>>), Element("iframe", <<>>, <<>>),
                  held(img), held(figure)}
    IN  {<<n>> : n \in nodes} \cup {<<n, m>> : n \in nodes, m \in nodes}

MediaInit ==
    /\ EditorInit
    /\ SelectionOff
    /\ AsyncOff
    /\ CommandOff
    /\ pc = "media"
    /\ input \in MediaTrees
    /\ output = <<>>
    /\ sanitizeConfig = FilterRules

\* editor.setData(data, runFilter, runBlockRules), first on the input and then
\* on the markup of the editor as the call before left it, where the parser
\* reads that markup as the tree it is (no div below a p)
SetDataOnMarkup(runFilter, runBlockRules, lastBlock) ==
    /\ pc = "media"
    /\ Len(output) < MaxRuns
    /\ \E data \in {IF output = <<>> THEN input ELSE output[Len(output)]} :
           /\ \A k \in DOMAIN find(data) :
                  find(data)[k].tag = "p" =>
                      \A d \in DOMAIN find(find(data)[k].kids) :
                          find(find(data)[k].kids)[d].tag \notin {"p", "div"}
           /\ \E c \in {filterForSetData(data, runFilter, sanitizeConfig)} :
                  /\ output' = IF c.hangs THEN output
                               ELSE Append(output, setDataOnMarkup(c.nodes, runBlockRules, lastBlock))
                  /\ sanitizeConfig' = c.config
                  /\ pc' = IF c.hangs THEN "hangs" ELSE pc
    /\ UNCHANGED <<editor, selection, input, async, commands>>

MediaNext ==
    \E runFilter \in BOOLEAN, runBlockRules \in BOOLEAN, lastBlock \in BOOLEAN :
        SetDataOnMarkup(runFilter, runBlockRules, lastBlock)

MediaSpec == MediaInit /\ [][MediaNext]_vars

\* the elements below the nodes with, for each, the number of media holders
\* and of media elements among its parents
RECURSIVE withParents(_, _, _)
withParents(nodes, holders, media) ==
    IF nodes = <<>> THEN <<>>
    ELSE LET h == Head(nodes)
         IN  (IF h.tag = "#text" THEN <<>>
              ELSE <<[node |-> h, holders |-> holders, media |-> media]>>
                   \o withParents(h.kids,
                                  holders + (IF isMediaHolderElement(h) THEN 1 ELSE 0),
                                  media + (IF h.tag \in MEDIA_ELEMENTS THEN 1 ELSE 0)))
             \o withParents(Tail(nodes), holders, media)

\* C34: after setData every top-most media element (img, iframe, figure, hr)
\* is in exactly one media holder, every media holder holds exactly one
\* top-most media element, and the document has a text block.
C34_MediaIsHeldOnce ==
    pc = "media" /\ output # <<>> =>
        LET document == output[Len(output)]
            all == withParents(document, 0, 0)
            topMost(ns) == {k \in DOMAIN ns : ns[k].node.tag \in MEDIA_ELEMENTS /\ ns[k].media = 0}
        IN  /\ \A k \in topMost(all) : all[k].holders = 1
            /\ \A k \in DOMAIN all :
                   isMediaHolderElement(all[k].node) =>
                       Cardinality(topMost(withParents(all[k].node.kids, 0, 0))) = 1
            /\ \E k \in DOMAIN document :
                   document[k].tag \in {"p", "h2", "blockquote", "ul", "ol", "pre"}

\* C35: once a capture records a new checkpoint (the content differs from the
\* current checkpoint's), no state put on the redo stack by an earlier undo is
\* left there: the debounced capture leaves the redo stack empty, and the
\* capture at the start of undo() leaves on it only the checkpoint that this
\* undo() puts there.
C35_NewCheckpointEmptiesRedoStack ==
    [][capture' = "pushed" =>
          /\ event' = "saverDebounced" => redoStates' = <<>>
          /\ event' = "undo" => Len(redoStates') <= 1]_vars

\* C36: whenever the undo manager has a current checkpoint and a non-empty
\* undo stack, the state on top of the stack has serialized content other
\* than the checkpoint's.
C36_TopOfUndoStackDiffersFromCheckpoint ==
    currState # Null /\ undoStates # <<>> =>
        Markup(undoStates[Len(undoStates)].data) # Markup(currState[1].data)

\* C37: the sanitizer run twice on the same input, with the editor's
\* configuration, gives the same output both times.
C37_SanitizationIsDeterministic ==
    pc \in {"filter", "attributes", "configured"} /\ Len(output) = 2 => output[2] = output[1]

(* ---- a selection around a media holder (src/src/selectionContext.js) ---- *)
\* element: a non-editable element (a media holder) that holds the text nodes
\* first..last of the container, the glyphs of its controls. The two walks do
\* not go below it: the text nodes they visit
editableNodes(nodes, el) ==
    SubSeq(nodes, 1, el.first - 1) \o SubSeq(nodes, el.last + 1, Len(nodes))

\* a text node outside the element, counted among the nodes of the walks
inWalk(n, el) == IF n < el.first THEN n ELSE n - (el.last - el.first + 1)

\* a node of the walks, counted among all text nodes
inContainer(n, el) == IF n < el.first THEN n ELSE n + (el.last - el.first + 1)

\* saveSelection(containerEl) with the non-editable element in the container:
\* start from the walk, end from range.toString(), the text of all the text
\* nodes in the range
saveSelectionAround(nodes, r, el) ==
    LET walked == editableNodes(nodes, el)
        rw == Range(inWalk(r.sc, el), r.so, inWalk(r.ec, el), r.eo)
        start == saveWalk(walked, rw, 1, 0)
    IN  [start |-> start, end |-> start + Len(toString(nodes, r)), endContainer |-> r.ec]

\* restoreSelection(savedSel) with the non-editable element in the container
restoreSelectionAround(nodes, saved, el) ==
    {Range(inContainer(rw.sc, el), rw.so, inContainer(rw.ec, el), rw.eo) :
        rw \in restoreSelectionRange(editableNodes(nodes, el),
                                     [saved EXCEPT !.endContainer = inWalk(@, el)])}

\* the user has selected text around or beside a media holder: the text nodes
\* of the holder are not empty, the boundary points are in text nodes outside
\* it; selected is the editable text in the range
HolderInit ==
    /\ EditorInit
    /\ FilterOff
    /\ AsyncOff
    /\ CommandOff
    /\ pc = "holder"
    /\ \E n \in 1..MaxText : container \in Segmentations(SubSeq(Letters, 1, n))
    /\ element \in {el \in [first : DOMAIN container, last : DOMAIN container] :
                       /\ el.first <= el.last
                       /\ \A k \in el.first..el.last : container[k] # <<>>}
    /\ range \in {r \in Ranges(container) :
                     r.sc \notin element.first..element.last
                     /\ r.ec \notin element.first..element.last}
    /\ savedSel = [start |-> 0, end |-> 0, endContainer |-> 0]
    /\ selected = toString(editableNodes(container, element),
                           Range(inWalk(range.sc, element), range.so,
                                 inWalk(range.ec, element), range.eo))

SaveSelectionAround ==
    /\ pc = "holder"
    /\ savedSel' = saveSelectionAround(container, range, element)
    /\ pc' = "holder saved"
    /\ UNCHANGED <<editor, filter, container, range, selected, element, async, commands>>

RestoreSelectionAround ==
    /\ pc = "holder saved"
    /\ range' \in restoreSelectionAround(container, savedSel, element)
    /\ pc' = "holder restored"
    /\ UNCHANGED <<editor, filter, container, savedSel, selected, element, async, commands>>

HolderNext == SaveSelectionAround \/ RestoreSelectionAround

HolderSpec == HolderInit /\ [][HolderNext]_vars

\* C40: for a range with a non-editable element holding text beside or inside
\* it, the saved end is the saved start plus the length of the editable text
\* in the range, and the range restored from it selects that editable text.
C40_RestoreSelectsTheSameEditableText ==
    /\ pc = "holder saved" => savedSel.end = savedSel.start + Len(selected)
    /\ pc = "holder restored" =>
           toString(editableNodes(container, element),
                    Range(inWalk(range.sc, element), range.so,
                          inWalk(range.ec, element), range.eo)) = selected

====
